---------------------------- MODULE Spec2Model ----------------------------
(***************************************************************************)
(* A model of DIPlib's convolution code (src/src/linear/convolution.cpp):  *)
(* the internal 1-D filter, the separable line filter, SeparableConvolution,*)
(* ConvolveFT, GeneralConvolution and the Convolution dispatcher.          *)
(*                                                                         *)
(* Samples are complex numbers <<re, im>> over the integers (a real sample *)
(* has im = 0), so that arithmetic is exact.  Sequences are 1-based: the   *)
(* code's index k is the model's index k + 1.                              *)
(***************************************************************************)
EXTENDS Integers, Sequences, FiniteSets, TLC

(***************************************************************************)
(* Bounds of the model.                                                    *)
(***************************************************************************)
MaxLen == 3
MaxTaps == 2
MaxSide == 2

(***************************************************************************)
(* dip::uint arithmetic.  dip::uint is a 64-bit unsigned integer; TLC's    *)
(* integers are 32 bits wide, so the model keeps the wrap-around but at    *)
(* 2^30: every size of the model is far below it, so a difference wraps in *)
(* the model exactly when it wraps in the code.                            *)
(***************************************************************************)
UintModulus == 2^30
UintMax == UintModulus - 1
USub(a, b) == (a - b) % UintModulus
UAdd(a, b) == (a + b) % UintModulus
Max(a, b) == IF a >= b THEN a ELSE b
Min(a, b) == IF a <= b THEN a ELSE b

(***************************************************************************)
(* Complex samples.                                                        *)
(***************************************************************************)
Cx(re, im) == <<re, im>>
Re(z) == z[1]
Im(z) == z[2]
CZero == Cx(0, 0)
COne == Cx(1, 0)
CAdd(a, b) == Cx(Re(a) + Re(b), Im(a) + Im(b))
CSub(a, b) == Cx(Re(a) - Re(b), Im(a) - Im(b))
CMul(a, b) == Cx(Re(a) * Re(b) - Im(a) * Im(b), Re(a) * Im(b) + Im(a) * Re(b))
conjugate(z) == Cx(Re(z), 0 - Im(z))

RECURSIVE CSum(_)
CSum(s) == IF s = <<>> THEN CZero ELSE CAdd(Head(s), CSum(Tail(s)))

RECURSIVE SeqsUpTo(_, _)
SeqsUpTo(S, n) ==
  IF n = 0 THEN {<<>>}
  ELSE LET shorter == SeqsUpTo(S, n - 1)
       IN shorter \cup {Append(s, x) : s \in {t \in shorter : Len(t) = n - 1}, x \in S}

(***************************************************************************)
(* CopyReverseData: dest[i] = src[n - 1 - i].                              *)
(***************************************************************************)
CopyForwardData(src, n) == [i \in 1..n |-> src[i]]

CopyReverseData(src, n) == [i \in 1..n |-> src[n + 1 - i]]

(***************************************************************************)
(* The caller's OneDimensionalFilter holds dfloat values; a complex filter *)
(* holds (re, im) pairs interleaved.  ToComplexSamples is the              *)
(* reinterpret_cast< dcomplex const* > of those values (n complex values), *)
(* ToRealSamples the conversion of n real values to the filter's type.     *)
(***************************************************************************)
ToComplexSamples(values, n) == [k \in 1..n |-> Cx(values[2 * k - 1], values[2 * k])]
ToRealSamples(values, n) == [k \in 1..n |-> Cx(values[k], 0)]

(***************************************************************************)
(* InternOneDimensionalFilter::InternOneDimensionalFilter.  The result     *)
(* has err = "" when the constructor returns, else the error it throws.    *)
(***************************************************************************)
InternSymmetry(symmetry, isComplex) ==
  CASE symmetry = "" \/ symmetry = "general" -> "GENERAL"
    [] symmetry = "even" -> "EVEN"
    [] symmetry = "odd" -> "ODD"
    [] symmetry = "conj" -> IF isComplex THEN "CONJ" ELSE "EVEN"
    [] symmetry = "d-even" -> "D_EVEN"
    [] symmetry = "d-odd" -> "D_ODD"
    [] symmetry = "d-conj" -> IF isComplex THEN "D_CONJ" ELSE "D_EVEN"
    [] OTHER -> "NOT_RECOGNIZED"

InternSizeAlwaysOdd(symmetry, n) ==
  CASE symmetry \in {"", "general"} -> n
    [] OTHER -> UAdd(n, USub(n, 1))

InternSize(symmetry, n) ==
  CASE symmetry \in {"", "general"} -> n
    [] symmetry \in {"even", "odd", "conj"} -> UAdd(n, USub(n, 1))
    [] symmetry \in {"d-even", "d-odd", "d-conj"} -> UAdd(n, n)
    [] OTHER -> n

InternOrigin(origin, size) ==
  IF origin < 0 THEN size \div 2 ELSE origin

InternOneDimensionalFilter(in, useDouble, useComplex) ==
  LET nValues == Len(in.filter)
      empty == [err |-> "", filter |-> <<>>, size |-> 0, dataSize |-> 0, origin |-> 0,
                isDouble |-> useDouble, isComplex |-> useComplex, symmetry |-> "GENERAL"]
      dataSize == IF in.isComplex THEN nValues \div 2 ELSE nValues
      size == InternSize(in.symmetry, dataSize)
      origin == InternOrigin(in.origin, size)
      src == IF in.isComplex THEN ToComplexSamples(in.filter, dataSize)
                             ELSE ToRealSamples(in.filter, dataSize)
  IN IF in.isComplex /\ nValues % 2 = 1
       THEN [empty EXCEPT !.err = "Complex filter must have an even number of values."]
     ELSE IF in.isComplex /\ ~useComplex
       THEN [empty EXCEPT !.err = "Found a complex filter where none was expected."]
     ELSE IF dataSize = 0
       THEN empty
     ELSE IF InternSymmetry(in.symmetry, useComplex) = "NOT_RECOGNIZED"
       THEN [empty EXCEPT !.err = "Symmetry string not recognized"]
     ELSE IF in.origin >= 0 /\ origin >= size
       THEN [empty EXCEPT !.err = "Origin outside of filter"]
     ELSE [err |-> "",
           filter |-> CopyReverseData(src, dataSize),
           size |-> size,
           dataSize |-> dataSize,
           origin |-> USub(USub(size, origin), 1),
           isDouble |-> useDouble,
           isComplex |-> useComplex,
           symmetry |-> InternSymmetry(in.symmetry, useComplex)]

(***************************************************************************)
(* SeparableConvolutionLineFilter::Filter, one output sample.  `buf` is    *)
(* the input buffer, a function on the line's indices extended by the      *)
(* border on both sides (index 0 is the first sample of the line); `f` the *)
(* internal filter; `ii` the output index.                                 *)
(***************************************************************************)
FilterBase(f, ii) ==
  IF f.symmetry = "GENERAL" THEN ii - f.origin
  ELSE ii - f.origin + (f.dataSize - 1)

(* The line indices one output sample reads. *)
ReadIndices(f, ii) ==
  LET base == FilterBase(f, ii)
      n == f.dataSize
  IN CASE f.symmetry = "GENERAL" -> {base + k : k \in 0..(n - 1)}
       [] f.symmetry \in {"EVEN", "ODD", "CONJ"} ->
            {base} \cup {base + j : j \in 1..(n - 1)} \cup {base - j : j \in 1..(n - 1)}
       [] OTHER -> {base + k : k \in 0..(n - 1)} \cup {base - 1 - k : k \in 0..(n - 1)}

(* A read outside the buffer is undefined behaviour: it yields whatever the
   memory there holds, `garbage`. *)
ReadSample(buf, i, garbage) == IF i \in DOMAIN buf THEN buf[i] ELSE garbage

FilterSample(f, buf, ii, garbage) ==
  LET base == FilterBase(f, ii)
      n == f.dataSize
      tap(k) == f.filter[k + 1]
      in(i) == ReadSample(buf, i, garbage)
  IN CASE f.symmetry = "GENERAL" ->
            CSum([k \in 1..n |-> CMul(tap(k - 1), in(base + (k - 1)))])
       [] f.symmetry = "EVEN" ->
            CAdd(CMul(tap(0), in(base)),
                 CSum([j \in 1..(n - 1) |->
                        CMul(tap(j), CAdd(in(base + j), in(base - j)))]))
       [] f.symmetry = "ODD" ->
            CAdd(CMul(tap(0), in(base)),
                 CSum([j \in 1..(n - 1) |->
                        CMul(tap(j), CSub(in(base + j), in(base - j)))]))
       [] f.symmetry = "CONJ" ->
            CAdd(CMul(tap(0), in(base)),
                 CSum([j \in 1..(n - 1) |->
                        CAdd(CMul(tap(j), in(base + j)),
                             CMul(conjugate(tap(j)), in(base - j)))]))
       [] f.symmetry = "D_EVEN" ->
            CSum([k \in 1..n |->
                   CMul(tap(k - 1), CAdd(in(base + (k - 1)), in(base - 1 - (k - 1))))])
       [] f.symmetry = "D_ODD" ->
            CSum([k \in 1..n |->
                   CMul(tap(k - 1), CSub(in(base + (k - 1)), in(base - 1 - (k - 1))))])
       [] f.symmetry = "D_CONJ" ->
            CSum([k \in 1..n |->
                   CAdd(CMul(tap(k - 1), in(base + (k - 1))),
                        CMul(conjugate(tap(k - 1)), in(base - 1 - (k - 1))))])

(* The whole callback: out + ii * outStride receives sample ii, for ii = 0..length-1. *)
Filter(f, buf, length, garbage) ==
  [ii \in 1..length |-> FilterSample(f, buf, ii - 1, garbage)]

(* The callback reads outside its input buffer. *)
ReadsOutside(f, buf, length) ==
  \E ii \in 0..(length - 1) : ~(ReadIndices(f, ii) \subseteq DOMAIN buf)

(***************************************************************************)
(* IsMeaninglessFilter.                                                    *)
(***************************************************************************)
IsMeaninglessFilterOnlyEmpty(f) == f.size = 0

IsMeaninglessFilter(f) ==
  (f.size = 0) \/ ((f.size = 1) /\ (f.filter[1] = COne))


(***************************************************************************)
(* Images.  An image has sizes (one per dimension), samples (x runs        *)
(* fastest), a data type and is forged or not.  The model has images of at *)
(* most two dimensions.                                                    *)
(***************************************************************************)
RECURSIVE Product(_)
Product(sizes) == IF sizes = <<>> THEN 1 ELSE Head(sizes) * Product(Tail(sizes))
RECURSIVE SumOf(_)
SumOf(sizes) == IF sizes = <<>> THEN 0 ELSE Head(sizes) + SumOf(Tail(sizes))

Dimensionality(image) == Len(image.sizes)
NumberOfPixels(image) == Product(image.sizes)
Stride(sizes, d) == IF d = 1 THEN 1 ELSE sizes[1]
OtherDim(d) == 3 - d
(* The lines of an image along dimension d, named by the coordinate along the other one. *)
Lines(sizes, d) == IF Len(sizes) = 1 THEN {0} ELSE 0..(sizes[OtherDim(d)] - 1)
LineStart(sizes, d, l) == IF Len(sizes) = 1 THEN 1 ELSE 1 + l * Stride(sizes, OtherDim(d))
SampleIndex(sizes, d, l, i) == LineStart(sizes, d, l) + i * Stride(sizes, d)
GetLine(sizes, data, d, l) == [i \in 1..sizes[d] |-> data[SampleIndex(sizes, d, l, i - 1)]]

(***************************************************************************)
(* Boundary extension of one line (the separable framework's input buffer, *)
(* and dip::ExtendImageToSize): the value at line index i, which may lie   *)
(* outside 0..length-1.                                                    *)
(***************************************************************************)
MirrorIndex(i, length) ==
  LET j == i % (2 * length) IN IF j < length THEN j ELSE 2 * length - 1 - j
IsInside(i, length) == i >= 0 /\ i < length
BoundaryValue(line, i, bc) ==
  LET length == Len(line)
  IN IF IsInside(i, length) THEN line[i + 1]
     ELSE CASE bc = "add zeros" -> CZero
            [] bc = "periodic" -> line[(i % length) + 1]
            [] bc = "asym mirror" -> CSub(CZero, line[MirrorIndex(i, length) + 1])
            [] bc = "zero order" -> line[Min(Max(i, 0), length - 1) + 1]
            [] OTHER -> line[MirrorIndex(i, length) + 1]
ExtendLine(line, b, bc) ==
  [i \in (0 - b)..(Len(line) - 1 + b) |-> BoundaryValue(line, i, bc)]
(* One boundary condition per dimension from a StringArray of length 0, 1 or nDims. *)
BoundaryConditionOf(boundaryCondition, d) ==
  IF boundaryCondition = <<>> THEN ""
  ELSE IF Len(boundaryCondition) = 1 THEN boundaryCondition[1]
  ELSE boundaryCondition[d]

(***************************************************************************)
(* Data types: DataType::SuggestFlex, DataType::SuggestComplex.            *)
(***************************************************************************)
SuggestFlex(dt) ==
  CASE dt \in {"SFLOAT", "DFLOAT", "SCOMPLEX", "DCOMPLEX"} -> dt
    [] dt \in {"UINT32", "SINT32"} -> "DFLOAT"
    [] OTHER -> "SFLOAT"
SuggestComplex(dt) ==
  CASE dt \in {"DFLOAT", "DCOMPLEX", "UINT32", "SINT32"} -> "DCOMPLEX"
    [] OTHER -> "SCOMPLEX"


(***************************************************************************)
(* State.                                                                  *)
(*   sepArgs   the arguments of the SeparableConvolution call in progress: *)
(*             in, filterArray, boundaryCondition, process                 *)
(*   sepPc     where that call is: "idle", "call" (entered), "separable"   *)
(*             (inside Framework::Separable), "done" (returned), "error"   *)
(*             (threw)                                                     *)
(*   sepErr    what it threw                                               *)
(*   filterData, border, process, dtype   its locals of the same names     *)
(*   pass      Framework::Separable's position: the dimensions still to    *)
(*             process, the pass's input samples, its output samples, the  *)
(*             lines already filtered, the number of Filter calls made and *)
(*             whether one of them read outside its input buffer           *)
(*   out       the output image                                            *)
(***************************************************************************)
VARIABLES sepArgs, sepPc, sepErr, filterData, border, process, dtype, pass, out

sepVars == <<sepArgs, sepPc, sepErr, filterData, border, process, dtype, pass, out>>

NoImage == [forged |-> FALSE, sizes |-> <<>>, data |-> <<>>, dataType |-> "SFLOAT"]
NoPass == [dims |-> <<>>, cur |-> <<>>, outData |-> <<>>, linesDone |-> {}, calls |-> 0,
           outside |-> FALSE]

(***************************************************************************)
(* SeparableConvolution, up to the call of Framework::Separable.           *)
(***************************************************************************)
SepIsComplexFilter(filterArray) == \E k \in 1..Len(filterArray) : filterArray[k].isComplex

SepDataType(in, filterArray) ==
  IF SepIsComplexFilter(filterArray) THEN SuggestComplex(in.dataType)
  ELSE SuggestFlex(in.dataType)

SepUseDouble(dt) == dt \in {"DCOMPLEX", "DFLOAT"}

SepFilterData(in, filterArray) ==
  [k \in 1..Len(filterArray) |->
     InternOneDimensionalFilter(filterArray[k],
                                SepUseDouble(SepDataType(in, filterArray)),
                                SepIsComplexFilter(filterArray))]

(* The first error thrown while the filters are copied, "" if none. *)
RECURSIVE FirstError(_)
FirstError(fd) ==
  IF fd = <<>> THEN ""
  ELSE IF Head(fd).err # "" THEN Head(fd).err ELSE FirstError(Tail(fd))

BorderOf(f) == Max(f.origin, USub(USub(f.size, f.origin), 1))

SepBorder(fd, nDims) ==
  IF Len(fd) = 1 THEN [ii \in 1..nDims |-> BorderOf(fd[1])]
  ELSE [ii \in 1..nDims |-> BorderOf(fd[ii])]

SepProcess(processArg, fd, in) ==
  LET nDims == Dimensionality(in)
      given == IF processArg = <<>> THEN [ii \in 1..nDims |-> TRUE] ELSE processArg
  IN IF Len(fd) = 1
       THEN IF IsMeaninglessFilter(fd[1]) THEN [ii \in 1..nDims |-> FALSE] ELSE given
     ELSE [ii \in 1..nDims |->
             IF (in.sizes[ii] <= 1) \/ IsMeaninglessFilter(fd[ii]) THEN FALSE ELSE given[ii]]

SepSetupErrorProcessUnchecked(a) ==
  LET nDims == Dimensionality(a.in)
  IN IF ~a.in.forged THEN "IMAGE_NOT_FORGED"
     ELSE IF nDims < 1 THEN "DIMENSIONALITY_NOT_SUPPORTED"
     ELSE IF Len(a.filterArray) # 1 /\ Len(a.filterArray) # nDims
       THEN "ARRAY_PARAMETER_WRONG_LENGTH"
     ELSE FirstError(SepFilterData(a.in, a.filterArray))

SepSetupError(a) ==
  LET nDims == Dimensionality(a.in)
  IN IF ~a.in.forged THEN "IMAGE_NOT_FORGED"
     ELSE IF nDims < 1 THEN "DIMENSIONALITY_NOT_SUPPORTED"
     ELSE IF Len(a.filterArray) # 1 /\ Len(a.filterArray) # nDims
       THEN "ARRAY_PARAMETER_WRONG_LENGTH"
     ELSE IF FirstError(SepFilterData(a.in, a.filterArray)) # ""
       THEN FirstError(SepFilterData(a.in, a.filterArray))
     ELSE IF a.process # <<>> /\ Len(a.process) # nDims THEN "ARRAY_PARAMETER_WRONG_LENGTH"
     ELSE ""

(* The dimensions Framework::Separable processes, in dimension order. *)
RECURSIVE DimsToProcess(_, _)
DimsToProcess(proc, from) ==
  IF from > Len(proc) THEN <<>>
  ELSE IF proc[from] THEN <<from>> \o DimsToProcess(proc, from + 1)
  ELSE DimsToProcess(proc, from + 1)

(* Framework::Separable converts the input to the buffer type. *)
ConvertedImage(in, dt) == [forged |-> TRUE, sizes |-> in.sizes, data |-> in.data, dataType |-> dt]

SeparableConvolutionSetup ==
  /\ sepPc = "call"
  /\ LET a == sepArgs
         err == SepSetupError(a)
         fd == SepFilterData(a.in, a.filterArray)
         proc == SepProcess(a.process, fd, a.in)
         dims == DimsToProcess(proc, 1)
         dt == SepDataType(a.in, a.filterArray)
     IN IF err # ""
          THEN /\ sepPc' = "error"
               /\ sepErr' = err
               /\ UNCHANGED <<filterData, border, process, dtype, pass, out>>
        ELSE /\ filterData' = fd
             /\ border' = SepBorder(fd, Dimensionality(a.in))
             /\ process' = proc
             /\ dtype' = dt
             /\ sepErr' = ""
             /\ IF dims = <<>>
                  THEN /\ sepPc' = "done"
                       /\ out' = ConvertedImage(a.in, dt)
                       /\ pass' = NoPass
                ELSE /\ sepPc' = "separable"
                     /\ pass' = [dims |-> dims, cur |-> a.in.data, outData |-> a.in.data,
                                 linesDone |-> {}, calls |-> 0, outside |-> FALSE]
                     /\ UNCHANGED out
  /\ UNCHANGED sepArgs

(***************************************************************************)
(* One call of the line filter by Framework::Separable: a thread takes a   *)
(* line of the dimension being processed that no thread has taken, copies  *)
(* it with its border into the input buffer and has Filter write the       *)
(* output line.  The last line of a dimension ends the pass; the last pass *)
(* ends the call.                                                          *)
(***************************************************************************)
ProcDim(fd, dimension) == IF Len(fd) > 1 THEN dimension ELSE 1

InBuffer(a, brd, cur, d, l) ==
  ExtendLine(GetLine(a.in.sizes, cur, d, l), brd[d],
             BoundaryConditionOf(a.boundaryCondition, d))

FilteredLine(a, fd, brd, cur, d, l, garbage) ==
  Filter(fd[ProcDim(fd, d)], InBuffer(a, brd, cur, d, l), a.in.sizes[d], garbage)

WriteLine(sizes, data, d, l, line) ==
  [p \in 1..Len(data) |->
     IF \E i \in 0..(sizes[d] - 1) : SampleIndex(sizes, d, l, i) = p
       THEN line[(CHOOSE i \in 0..(sizes[d] - 1) : SampleIndex(sizes, d, l, i) = p) + 1]
     ELSE data[p]]

Garbage == {CZero, COne}

SeparableFilterLine(l, garbage) ==
  /\ sepPc = "separable"
  /\ LET d == Head(pass.dims)
         sizes == sepArgs.in.sizes
         written == WriteLine(sizes, pass.outData, d, l,
                              FilteredLine(sepArgs, filterData, border, pass.cur, d, l,
                                           garbage))
         done == pass.linesDone \cup {l}
         outside == pass.outside
                      \/ ReadsOutside(filterData[ProcDim(filterData, d)],
                                      InBuffer(sepArgs, border, pass.cur, d, l), sizes[d])
     IN /\ l \in Lines(sizes, d) \ pass.linesDone
        /\ IF done # Lines(sizes, d)
             THEN /\ pass' = [pass EXCEPT !.outData = written, !.linesDone = done,
                                          !.calls = @ + 1, !.outside = outside]
                  /\ UNCHANGED <<sepPc, out>>
           ELSE IF Tail(pass.dims) # <<>>
             THEN /\ pass' = [dims |-> Tail(pass.dims), cur |-> written, outData |-> written,
                              linesDone |-> {}, calls |-> pass.calls + 1,
                              outside |-> outside]
                  /\ UNCHANGED <<sepPc, out>>
           ELSE /\ pass' = [pass EXCEPT !.dims = <<>>, !.outData = written,
                                        !.linesDone = done, !.calls = @ + 1,
                                        !.outside = outside]
                /\ out' = [forged |-> TRUE, sizes |-> sizes, data |-> written,
                           dataType |-> dtype]
                /\ sepPc' = "done"
  /\ UNCHANGED <<sepArgs, sepErr, filterData, border, process, dtype>>


(***************************************************************************)
(* The output of a whole SeparableConvolution call: the passes of          *)
(* Framework::Separable over the processed dimensions, every line of a     *)
(* pass filtered from the pass's input.                                    *)
(***************************************************************************)
LineOfSample(sizes, d, p) ==
  CHOOSE l \in Lines(sizes, d) : \E i \in 0..(sizes[d] - 1) : SampleIndex(sizes, d, l, i) = p
IndexInLine(sizes, d, p) ==
  CHOOSE i \in 0..(sizes[d] - 1) : SampleIndex(sizes, d, LineOfSample(sizes, d, p), i) = p

PassResult(a, fd, brd, cur, d, garbage) ==
  [p \in 1..Len(cur) |->
     FilteredLine(a, fd, brd, cur, d, LineOfSample(a.in.sizes, d, p), garbage)
       [IndexInLine(a.in.sizes, d, p) + 1]]

RECURSIVE RunPasses(_, _, _, _, _, _)
RunPasses(a, fd, brd, cur, dims, garbage) ==
  IF dims = <<>> THEN cur
  ELSE RunPasses(a, fd, brd, PassResult(a, fd, brd, cur, Head(dims), garbage), Tail(dims),
                 garbage)

SeparableConvolutionResult(a, garbage) ==
  LET fd == SepFilterData(a.in, a.filterArray)
  IN IF SepSetupError(a) # "" THEN [err |-> SepSetupError(a), data |-> <<>>]
     ELSE [err |-> "",
           data |-> RunPasses(a, fd, SepBorder(fd, Dimensionality(a.in)), a.in.data,
                              DimsToProcess(SepProcess(a.process, fd, a.in), 1), garbage)]

(***************************************************************************)
(* The calls of SeparableConvolution the model makes.                      *)
(***************************************************************************)
OneDimensionalFilter(filter, origin, symmetry, isComplex) ==
  [filter |-> filter, origin |-> origin, symmetry |-> symmetry, isComplex |-> isComplex]

TapValues == {1, 2}
Symmetries == {"general", "even", "odd", "conj", "d-even", "d-odd", "d-conj", "bogus"}
Origins == {0 - 1, 0, 1, MaxTaps, 2 * MaxTaps - 1, 2 * MaxTaps}
RealFilters ==
  {OneDimensionalFilter(t, o, s, FALSE) :
     t \in SeqsUpTo(TapValues, MaxTaps), o \in Origins, s \in Symmetries}
(* Complex filters: a value list of odd length, the taps 1, i, (1, i) and (i, 2). *)
ComplexFilters ==
  {OneDimensionalFilter(t, o, s, TRUE) :
     t \in {<<1>>, <<1, 0>>, <<0, 1>>, <<1, 0, 0, 1>>, <<0, 1, 2, 0>>},
     o \in {0 - 1, 0, 1}, s \in {"", "even", "conj", "d-conj"}}
(* The filters used where two are given, one per dimension. *)
AxisFilters ==
  {OneDimensionalFilter(<<>>, 0 - 1, "general", FALSE),
   OneDimensionalFilter(<<1>>, 0 - 1, "general", FALSE),
   OneDimensionalFilter(<<1>>, 0 - 1, "d-even", FALSE),
   OneDimensionalFilter(<<2>>, 0, "even", FALSE),
   OneDimensionalFilter(<<1, 2>>, 0 - 1, "general", FALSE),
   OneDimensionalFilter(<<1, 2>>, 0 - 1, "odd", FALSE),
   OneDimensionalFilter(<<1, 0>>, 0 - 1, "", TRUE)}

RealSamples(values) == [k \in 1..Len(values) |-> Cx(values[k], 0)]
Image(sizes, data, dataType) ==
  [forged |-> TRUE, sizes |-> sizes, data |-> data, dataType |-> dataType]

(* The lines of 1 to MaxLen samples that are all 1, or 1 at one sample and 0
   at the others: the filters are linear in the line. *)
RealLines ==
  UNION {{RealSamples([i \in 1..n |-> IF p = 0 \/ i = p THEN 1 ELSE 0]) : p \in 0..n} :
           n \in 1..MaxLen}
ComplexLines == SeqsUpTo({Cx(0, 1), Cx(1, 0)}, 2) \ {<<>>}
Images1D == {Image(<<Len(line)>>, line, "SFLOAT") : line \in RealLines}
TypedImages1D ==
  {Image(<<Len(line)>>, line, "DCOMPLEX") : line \in ComplexLines}
    \cup {Image(<<2>>, RealSamples(<<1, 0>>), dt) : dt \in {"UINT16", "DFLOAT", "SCOMPLEX"}}
(* Two-dimensional images: every sample set, the first or the last. *)
Sizes2D == {<<a, b>> : a \in 1..MaxSide, b \in 1..MaxSide}
Images2D ==
  UNION {{Image(sz, [p \in 1..Product(sz) |-> IF p = q \/ q = 0 THEN COne ELSE CZero],
                "SFLOAT") : q \in {0, 1, Product(sz)}} : sz \in Sizes2D}
SecondAxisFilters ==
  {OneDimensionalFilter(<<>>, 0 - 1, "general", FALSE),
   OneDimensionalFilter(<<1>>, 0 - 1, "general", FALSE),
   OneDimensionalFilter(<<1, 2>>, 0 - 1, "odd", FALSE)}

SepArgs(in, filterArray, boundaryCondition, processArg) ==
  [in |-> in, filterArray |-> filterArray, boundaryCondition |-> boundaryCondition,
   process |-> processArg]

SeparableCallEntered ==
  \/ \E in \in Images1D, f \in RealFilters,
        bc \in {<<>>, <<"periodic">>, <<"add zeros">>, <<"asym mirror">>} :
       sepArgs = SepArgs(in, <<f>>, bc, <<>>)
  \/ \E in \in TypedImages1D, f \in ComplexFilters \cup AxisFilters :
       sepArgs = SepArgs(in, <<f>>, <<"periodic">>, <<>>)
  \/ \E in \in Images2D,
        fa \in {<<f>> : f \in AxisFilters}
                 \cup {<<f, g>> : f \in AxisFilters, g \in SecondAxisFilters},
        bc \in {<<"periodic">>, <<"add zeros", "periodic">>},
        pr \in {<<>>, <<TRUE, FALSE>>, <<FALSE, TRUE>>} :
       sepArgs = SepArgs(in, fa, bc, pr)
  \/ \E in \in {NoImage, Image(<<>>, <<COne>>, "SFLOAT"),
                 Image(<<2>>, RealSamples(<<1, 0>>), "SFLOAT")},
        fa \in {<<>>} \cup {<<f>> : f \in AxisFilters} \cup {<<f, f>> : f \in AxisFilters},
        pr \in {<<>>, <<TRUE>>, <<TRUE, TRUE>>} :
       sepArgs = SepArgs(in, fa, <<>>, pr)

(***************************************************************************)
(* Convolution, the gateway to the three implementations.  It reads only   *)
(* the sizes of its images, so the images of this part of the model have   *)
(* no samples: [forged, sizes, dataType].                                  *)
(*                                                                         *)
(*   convArgs    the arguments of the Convolution call in progress: in,    *)
(*               filter_c, method, boundaryCondition; and `separable`,     *)
(*               whether dip::SeparateFilter finds 1-D filters for the     *)
(*               kernel                                                    *)
(*   convPc      where the call is: "idle", "call" (entered),              *)
(*               "trySeparable", "tryFourier", "direct" (the three blocks  *)
(*               of the function body), "done" (returned), "error" (threw) *)
(*   convErr     what it threw                                             *)
(*   tryMethods  its locals trySeparable, tryFourier, tryDirect            *)
(*   calls       the functions it has called, in order                     *)
(*   convOut     the output image: forged or not, its sizes and the        *)
(*               function that wrote it                                    *)
(***************************************************************************)
VARIABLES convArgs, convPc, convErr, tryMethods, calls, convOut

convVars == <<convArgs, convPc, convErr, tryMethods, calls, convOut>>

ImageHeader(forged, sizes, dataType) ==
  [forged |-> forged, sizes |-> sizes, dataType |-> dataType]
NoOutput == [forged |-> FALSE, sizes |-> <<>>, writtenBy |-> ""]
NoMethods == [trySeparable |-> FALSE, tryFourier |-> FALSE, tryDirect |-> FALSE]

(* Image::ExpandDimensionality: singleton dimensions are appended. *)
ExpandDimensionality(sizes, nDims) ==
  sizes \o [k \in 1..(nDims - Len(sizes)) |-> 1]

(* DimensionArray's operator<= and operator<: every element compares so. *)
SizesLeq(a, b) == Len(a) = Len(b) /\ \A k \in 1..Len(a) : a[k] <= b[k]
SizesLess(a, b) == Len(a) = Len(b) /\ \A k \in 1..Len(a) : a[k] < b[k]
AddSizes(a, b) == [k \in 1..Len(a) |-> a[k] + b[k]]

(***************************************************************************)
(* The time estimates are dfloat expressions; the model computes them      *)
(* exactly, in units of 1e-13 s, as two-limb numbers <<hi, lo>> = hi * 10^6 *)
(* + lo, because they do not fit TLC's integers.                           *)
(***************************************************************************)
Limb == 10^6
BigNorm(hi, lo) == <<hi + (lo \div Limb), lo % Limb>>
BigOf(c) == BigNorm(0, c)
BigAdd(a, b) == BigNorm(a[1] + b[1], a[2] + b[2])
BigTimes(a, m) == BigNorm(a[1] * m, a[2] * m)
BigLess(a, b) == a[1] < b[1] \/ (a[1] = b[1] /\ a[2] < b[2])

(* 1.635e-08 *)
FourierPerPixel == 163500
(* 8.781e-04, in units of 1e-7 s: the high limb *)
FourierFixed == 8781
(* 1.434e-10 *)
SeparablePerPixelTap == 1434
(* 4.987e-06 *)
SeparablePerTap == 49870000
(* 1.806e-10 *)
DirectPerPixelTap == 1806
(* 1.206e-05 *)
DirectPerTap == 120600000

TimeFourier(nx) == BigAdd(BigTimes(BigOf(FourierPerPixel), nx), <<FourierFixed, 0>>)
TimeSeparable(n, ks) ==
  BigTimes(BigAdd(BigTimes(BigOf(SeparablePerPixelTap), n), BigOf(SeparablePerTap)), ks)
TimeDirect(n, kp) ==
  BigTimes(BigAdd(BigTimes(BigOf(DirectPerPixelTap), n), BigOf(DirectPerTap)), kp)

(* The branch of method "best". *)
BestMethodsSwapped(inSizes, filterSizes) ==
  LET n == Product(inSizes)
      ks == SumOf(filterSizes)
      kp == Product(filterSizes)
      nx == Product(AddSizes(inSizes, filterSizes))
  IN [trySeparable |-> BigLess(TimeSeparable(n, ks), TimeFourier(nx)),
      tryFourier |-> BigLess(TimeDirect(n, kp), TimeFourier(nx)),
      tryDirect |-> ~BigLess(TimeDirect(n, kp), TimeFourier(nx))]

BestMethods(inSizes, filterSizes) ==
  LET n == Product(inSizes)
      ks == SumOf(filterSizes)
      kp == Product(filterSizes)
      nx == Product(AddSizes(inSizes, filterSizes))
      timeFourier == TimeFourier(nx)
      timeSeparable == TimeSeparable(n, ks)
      timeDirect == TimeDirect(n, kp)
  IN [trySeparable |-> BigLess(timeSeparable, timeFourier),
      tryFourier |-> BigLess(timeFourier, timeDirect),
      tryDirect |-> ~BigLess(timeFourier, timeDirect)]

MethodErrorNone(method) == ""

MethodError(method) ==
  IF method \in {"direct", "Fourier", "separable", "best"} THEN "" ELSE "INVALID_FLAG"

ConvolutionMethods(method, inSizes, filterSizes) ==
  CASE method = "direct" -> [NoMethods EXCEPT !.tryDirect = TRUE]
    [] method = "Fourier" -> [NoMethods EXCEPT !.tryFourier = TRUE]
    [] method = "separable" -> [NoMethods EXCEPT !.trySeparable = TRUE]
    [] method = "best" -> BestMethods(inSizes, filterSizes)
    [] OTHER -> NoMethods

(* `filter`: the kernel with the dimensionality of the input. *)
ConvolutionFilter(a) ==
  IF Dimensionality(a.filter_c) < Dimensionality(a.in)
    THEN [a.filter_c EXCEPT !.sizes = ExpandDimensionality(@, Dimensionality(a.in))]
  ELSE a.filter_c

ConvolutionCheckError(a) ==
  IF ~a.in.forged \/ ~a.filter_c.forged THEN "IMAGE_NOT_FORGED"
  ELSE IF Dimensionality(ConvolutionFilter(a)) > Dimensionality(a.in)
    THEN "DIMENSIONALITIES_DONT_MATCH"
  ELSE MethodError(a.method)

(* The first part of Convolution: the checks and the methods to try. *)
ConvolutionBegin ==
  /\ convPc = "call"
  /\ IF ConvolutionCheckError(convArgs) # ""
       THEN /\ convPc' = "error"
            /\ convErr' = ConvolutionCheckError(convArgs)
            /\ UNCHANGED tryMethods
     ELSE /\ convPc' = "trySeparable"
          /\ tryMethods' = ConvolutionMethods(convArgs.method, convArgs.in.sizes,
                                              ConvolutionFilter(convArgs).sizes)
          /\ UNCHANGED convErr
  /\ UNCHANGED <<convArgs, calls, convOut>>

(***************************************************************************)
(* What Convolution sees of the functions it calls: the error each throws  *)
(* for the images it is given, and whether ConvolveFT pads its input.      *)
(***************************************************************************)
Call(fn, boundaryCondition, inPadding, err) ==
  [fn |-> fn, boundaryCondition |-> boundaryCondition, inPadding |-> inPadding, err |-> err]

Strategies == {"SeparableConvolution", "ConvolveFT", "GeneralConvolution"}

SeparableConvolutionError(in) ==
  IF ~in.forged THEN "IMAGE_NOT_FORGED"
  ELSE IF Dimensionality(in) < 1 THEN "DIMENSIONALITY_NOT_SUPPORTED"
  ELSE ""

ConvolveFTInPadding(inRepresentation, filterRepresentation, outRepresentation, boundaryCondition) ==
  /\ inRepresentation = "spatial"
  /\ filterRepresentation = "spatial"
  /\ outRepresentation = "spatial"
  /\ boundaryCondition # <<>>

ConvolveFTError(in, filter, inRepresentation, filterRepresentation, outRepresentation) ==
  IF ~in.forged \/ ~filter.forged THEN "IMAGE_NOT_FORGED"
  ELSE IF \E r \in {inRepresentation, filterRepresentation, outRepresentation} :
            r \notin {"spatial", "frequency"}
    THEN "INVALID_FLAG"
  ELSE IF ~SizesLeq(IF Dimensionality(filter) < Dimensionality(in)
                      THEN ExpandDimensionality(filter.sizes, Dimensionality(in))
                    ELSE filter.sizes,
                    in.sizes)
    THEN "SIZES_DONT_MATCH"
  ELSE ""

(* Framework::Full rejects a kernel larger than the image. *)
FullFrameworkError(in, filter) ==
  IF Dimensionality(filter) > Dimensionality(in) THEN "DIMENSIONALITIES_DONT_MATCH"
  ELSE IF \E k \in 1..Dimensionality(filter) : filter.sizes[k] > in.sizes[k]
    THEN "SIZES_DONT_MATCH"
  ELSE ""

GeneralConvolutionError(in, c_filter) ==
  IF ~in.forged \/ ~c_filter.forged THEN "IMAGE_NOT_FORGED"
  ELSE FullFrameworkError(in, c_filter)

(* The call returns or throws what the function it called throws. *)
ConvolutionEnds(call) ==
  /\ calls' = Append(calls, call)
  /\ IF call.err # ""
       THEN /\ convPc' = "error"
            /\ convErr' = call.err
            /\ UNCHANGED convOut
     ELSE /\ convPc' = "done"
          /\ convOut' = [forged |-> TRUE, sizes |-> convArgs.in.sizes, writtenBy |-> call.fn]
          /\ UNCHANGED convErr

NotSeparableErrorFallsBack(tryFourier, tryDirect) == ""

NotSeparableError(tryFourier, tryDirect) ==
  IF ~tryFourier /\ ~tryDirect THEN "Filter kernel not separable." ELSE ""

(* if( trySeparable ) { ... } *)
ConvolutionTrySeparable ==
  /\ convPc = "trySeparable"
  /\ IF ~tryMethods.trySeparable
       THEN /\ convPc' = "tryFourier"
            /\ UNCHANGED <<convErr, calls, convOut>>
     ELSE IF convArgs.separable
       THEN /\ calls' = calls \o <<Call("SeparateFilter", <<>>, FALSE, ""),
                                   Call("SeparableConvolution", convArgs.boundaryCondition,
                                        FALSE, SeparableConvolutionError(convArgs.in))>>
            /\ IF SeparableConvolutionError(convArgs.in) # ""
                 THEN /\ convPc' = "error"
                      /\ convErr' = SeparableConvolutionError(convArgs.in)
                      /\ UNCHANGED convOut
               ELSE /\ convPc' = "done"
                    /\ convOut' = [forged |-> TRUE, sizes |-> convArgs.in.sizes,
                                   writtenBy |-> "SeparableConvolution"]
                    /\ UNCHANGED convErr
     ELSE /\ calls' = Append(calls, Call("SeparateFilter", <<>>, FALSE, ""))
          /\ UNCHANGED convOut
          /\ IF NotSeparableError(tryMethods.tryFourier, tryMethods.tryDirect) # ""
               THEN /\ convPc' = "error"
                    /\ convErr' = NotSeparableError(tryMethods.tryFourier,
                                                    tryMethods.tryDirect)
             ELSE /\ convPc' = "tryFourier"
                  /\ UNCHANGED convErr
  /\ UNCHANGED <<convArgs, tryMethods>>

UseFourier(tryFourier, tryDirect, filterSizes, nDims) ==
  tryFourier /\ (~tryDirect \/ Product(filterSizes) > 7 ^ nDims)

FourierBoundaryConditionAsGiven(boundaryCondition) == boundaryCondition

FourierBoundaryCondition(boundaryCondition) ==
  IF boundaryCondition = <<>> THEN <<"">> ELSE boundaryCondition

(* if( tryFourier ) { ... } *)
ConvolutionTryFourier ==
  /\ convPc = "tryFourier"
  /\ IF UseFourier(tryMethods.tryFourier, tryMethods.tryDirect,
                   ConvolutionFilter(convArgs).sizes, Dimensionality(convArgs.in))
       THEN ConvolutionEnds(
              Call("ConvolveFT", FourierBoundaryCondition(convArgs.boundaryCondition),
                   ConvolveFTInPadding("spatial", "spatial", "spatial",
                                       FourierBoundaryCondition(convArgs.boundaryCondition)),
                   ConvolveFTError(convArgs.in, ConvolutionFilter(convArgs),
                                   "spatial", "spatial", "spatial")))
     ELSE /\ convPc' = "direct"
          /\ UNCHANGED <<convErr, calls, convOut>>
  /\ UNCHANGED <<convArgs, tryMethods>>

(* dip::GeneralConvolution( in, filter, out, boundaryCondition ); *)
ConvolutionDirect ==
  /\ convPc = "direct"
  /\ ConvolutionEnds(Call("GeneralConvolution", convArgs.boundaryCondition, FALSE,
                          GeneralConvolutionError(convArgs.in, ConvolutionFilter(convArgs))))
  /\ UNCHANGED <<convArgs, tryMethods>>

(***************************************************************************)
(* The calls of Convolution the model makes.  A kernel with at most one    *)
(* dimension larger than 1 is its own 1-D filter; of the others some       *)
(* separate and some do not.                                               *)
(***************************************************************************)
InputSizes ==
  {<<n>> : n \in 1..MaxLen} \cup {<<a, b>> : a \in 1..MaxSide, b \in 1..MaxSide}
    \cup {<<200>>, <<16, 16>>, <<3, 3, 3>>}
KernelSizes ==
  {<<n>> : n \in 1..MaxLen} \cup {<<a, b>> : a \in 1..MaxSide, b \in 1..MaxSide}
    \cup {<<190>>, <<9, 9>>, <<9, 8>>, <<3, 3>>, <<8>>, <<2, 2, 2>>}
Methods == {"direct", "Fourier", "separable", "best", "", "fourier"}
BoundaryConditions == {<<>>, <<"periodic">>, <<"add zeros">>}

TriviallySeparable(sizes) == Cardinality({k \in 1..Len(sizes) : sizes[k] > 1}) <= 1

ConvolutionCall(in, filter_c, method, boundaryCondition, separable) ==
  [in |-> in, filter_c |-> filter_c, method |-> method,
   boundaryCondition |-> boundaryCondition, separable |-> separable]

ConvolutionCallEntered ==
  \/ \E isz \in InputSizes, ksz \in KernelSizes, m \in Methods,
        bc \in BoundaryConditions, sep \in BOOLEAN :
       /\ TriviallySeparable(ksz) => sep
       /\ convArgs = ConvolutionCall(ImageHeader(TRUE, isz, "SFLOAT"),
                                     ImageHeader(TRUE, ksz, "SFLOAT"), m, bc, sep)
  \/ \E f1 \in BOOLEAN, f2 \in BOOLEAN, m \in Methods :
       convArgs = ConvolutionCall(ImageHeader(f1, <<MaxLen>>, "SFLOAT"),
                                  ImageHeader(f2, <<2>>, "SFLOAT"), m, <<>>, TRUE)


(***************************************************************************)
(* The samples the three implementations compute, on 1-D real images.      *)
(*                                                                         *)
(*   ftArgs   the call in progress: fn ("Convolution", "ConvolveFT" or     *)
(*            "GeneralConvolution"), in, filter_c, method, the three       *)
(*            representations and boundaryCondition                        *)
(*   ftPc     where it is: "idle", "call" (Convolution entered),           *)
(*            "strategy" (the implementation entered), "filter",           *)
(*            "multiply", "output" (inside ConvolveFT), "done", "error"    *)
(*   ftErr    what it threw                                                *)
(*   ft       the implementation's call and ConvolveFT's locals            *)
(*   ftOut    the output image                                             *)
(*   ftMem    where the pixel data is: the caller's output image as it is  *)
(*            given (out), the data segment each of inFT, filterFT, outFT  *)
(*            and the output image refers to, and the data segments        *)
(*            written so far.  The caller's images have the segments "in", *)
(*            "filter" and "out"; "" is no segment (a raw image).          *)
(***************************************************************************)
VARIABLES ftArgs, ftPc, ftErr, ft, ftOut, ftMem

ftVars == <<ftArgs, ftPc, ftErr, ft, ftOut, ftMem>>

(***************************************************************************)
(* dip::FourierTransform.  The code computes the discrete Fourier          *)
(* transform in floating point; the model computes it exactly, in the      *)
(* field of the integers modulo 241, which has a root of unity of every    *)
(* order the model's sizes need (they divide 240).  The origin of both     *)
(* domains is the sample at index size / 2; the forward transform is not   *)
(* normalised, the inverse divides by the size.  A sample of the frequency *)
(* domain is <<r, 0>> with r the residue.                                  *)
(***************************************************************************)
Modulus == 241
Generator == 7

RECURSIVE ModPow(_, _)
ModPow(b, e) ==
  IF e = 0 THEN 1
  ELSE IF e % 2 = 0 THEN ModPow((b * b) % Modulus, e \div 2)
  ELSE (b * ModPow(b, e - 1)) % Modulus

ModInverse(a) == ModPow(a % Modulus, Modulus - 2)
RootOfUnity(size) == ModPow(Generator, (Modulus - 1) \div size)

RECURSIVE ModSum(_)
ModSum(s) == IF s = <<>> THEN 0 ELSE (Head(s) + ModSum(Tail(s))) % Modulus

ToResidues(data) == [k \in 1..Len(data) |-> Re(data[k]) % Modulus]
Signed(r) == IF r > Modulus \div 2 THEN r - Modulus ELSE r
FromResidues(r) == [k \in 1..Len(r) |-> Cx(Signed(r[k]), 0)]
AsFrequency(r) == [k \in 1..Len(r) |-> Cx(r[k], 0)]

DFT(x, inverse) ==
  LET size == Len(x)
      c == size \div 2
      w == RootOfUnity(size)
      twiddle(n, k) ==
        LET e == ((n - c) * (k - c)) % size
        IN ModPow(w, IF inverse THEN e ELSE (size - e) % size)
      sum(k) == ModSum([n \in 1..size |-> (x[n] * twiddle(n - 1, k)) % Modulus])
  IN [k \in 1..size |->
        IF inverse THEN (ModInverse(size) * sum(k - 1)) % Modulus ELSE sum(k - 1)]

(* Forward: spatial samples to frequency samples; inverse: the other way. *)
FourierTransform(data, inverse) ==
  IF inverse THEN FromResidues(DFT(ToResidues(data), TRUE))
  ELSE AsFrequency(DFT(ToResidues(data), FALSE))

MultiplySampleWise(a, b) ==
  [k \in 1..Len(a) |-> Cx((Re(a[k]) * Re(b[k])) % Modulus, 0)]

(* The smallest size >= n that is a product of powers of 2, 3 and 5. *)
RECURSIVE IsNiceSize(_)
IsNiceSize(n) ==
  IF n <= 1 THEN n = 1
  ELSE IF n % 2 = 0 THEN IsNiceSize(n \div 2)
  ELSE IF n % 3 = 0 THEN IsNiceSize(n \div 3)
  ELSE IF n % 5 = 0 THEN IsNiceSize(n \div 5)
  ELSE FALSE
OptimalFourierTransformSize(n) ==
  CHOOSE m \in n..(2 * n) : IsNiceSize(m) /\ \A q \in n..(m - 1) : ~IsNiceSize(q)

(***************************************************************************)
(* Option::CropLocation::CENTER: the sample at the origin (index size / 2) *)
(* of the smaller image is the sample at the origin of the larger one.     *)
(***************************************************************************)
CenterOffset(outer, inner) == outer \div 2 - inner \div 2
ExtendImageToSize(data, size, bc) ==
  [j \in 1..size |-> BoundaryValue(data, (j - 1) - CenterOffset(size, Len(data)), bc)]
Pad(data, size, value) ==
  [j \in 1..size |->
     LET i == (j - 1) - CenterOffset(size, Len(data))
     IN IF IsInside(i, Len(data)) THEN data[i + 1] ELSE value]
Crop(data, size) == [i \in 1..size |-> data[i + CenterOffset(Len(data), size)]]

(***************************************************************************)
(* ConvolveFT.                                                             *)
(***************************************************************************)
NoLocals ==
  [call |-> <<>>, inPadding |-> FALSE, real |-> TRUE, inFT |-> <<>>, reuseInFT |-> FALSE,
   filterFT |-> <<>>, reuseFilterFT |-> FALSE, outFT |-> <<>>,
   lineFilter |-> "", pixelTable |-> <<>>]

IsReal(dataType) == dataType \notin {"SCOMPLEX", "DCOMPLEX"}

(* The caller's output image, and the segments before the call. *)
OutputImage(forged, protected, sizes, dataType) ==
  [forged |-> forged, protected |-> protected, sizes |-> sizes, dataType |-> dataType]
RawOutput == OutputImage(FALSE, FALSE, <<>>, "SFLOAT")
Segments(o) ==
  [out |-> o, inFT |-> "", filterFT |-> "", outFT |-> "",
   outData |-> IF o.forged THEN "out" ELSE "", written |-> {}]

(* Image::ReForge: a forged image of the sizes and data type asked for, or a
   protected one of these sizes when its data type may stay, keeps its data
   segment; another protected image cannot be stripped; any other image gets
   a new segment. *)
ReForgeKeeps(o, sizes, dataType, acceptDataTypeChange) ==
  /\ o.forged
  /\ o.sizes = sizes
  /\ o.dataType = dataType \/ (o.protected /\ acceptDataTypeChange)
ReForgeError(o, sizes, dataType, acceptDataTypeChange) ==
  IF o.forged /\ o.protected /\ ~ReForgeKeeps(o, sizes, dataType, acceptDataTypeChange)
    THEN "Image is protected" ELSE ""

(* ConvolveFT's dt: the sample type of the product of the two transforms. *)
ConvolveFTProductType == "SCOMPLEX"
(* The sample type of what ConvolveFT gives back. *)
ConvolveFTOutputType(outSpatial, real) ==
  IF outSpatial /\ real THEN "SFLOAT" ELSE ConvolveFTProductType

(* The segment the transform of the filter is written to. *)
FilterTransformSegment(segment, reuseFilterFT) ==
  IF reuseFilterFT THEN segment ELSE "filterFT"

(* The segment of outFT when out is not written directly. *)
OutFTSegment(reuseInFT, inSegment, reuseFilterFT, filterSegment) ==
  IF reuseInFT THEN inSegment
  ELSE IF reuseFilterFT THEN filterSegment
  ELSE "outFT"

ConvolveFTPaddedSizes(inSizes, filter) ==
  [ii \in 1..Len(inSizes) |->
     OptimalFourierTransformSize(inSizes[ii] + filter.sizes[ii] - 1)]

(* Test inputs; prepare input image. *)
ConvolveFTPrepareInput ==
  /\ ftPc = "strategy"
  /\ ft.call.fn = "ConvolveFT"
  /\ LET c == ft.call
         err == ConvolveFTError(c.in, c.filter, c.inRepresentation, c.filterRepresentation,
                                c.outRepresentation)
         inSpatial == c.inRepresentation = "spatial"
         inPadding == ConvolveFTInPadding(c.inRepresentation, c.filterRepresentation,
                                          c.outRepresentation, c.boundaryCondition)
         sizes == ConvolveFTPaddedSizes(c.in.sizes, c.filter)
         extended == ExtendImageToSize(c.in.data, sizes[1],
                                       BoundaryConditionOf(c.boundaryCondition, 1))
     IN IF err # ""
          THEN /\ ftPc' = "error"
               /\ ftErr' = err
               /\ UNCHANGED <<ft, ftMem>>
        ELSE /\ ftPc' = "filter"
             /\ UNCHANGED ftErr
             /\ ftMem' = IF inSpatial
                           THEN [ftMem EXCEPT !.inFT = "inFT", !.written = @ \cup {"inFT"}]
                         ELSE [ftMem EXCEPT !.inFT = "in"]
             /\ ft' = [ft EXCEPT
                         !.inPadding = inPadding,
                         !.real = IF inSpatial THEN IsReal(c.in.dataType) ELSE FALSE,
                         !.inFT = IF ~inSpatial THEN c.in.data
                                  ELSE IF inPadding THEN FourierTransform(extended, FALSE)
                                  ELSE FourierTransform(c.in.data, FALSE),
                         !.reuseInFT = inSpatial]
  /\ UNCHANGED <<ftArgs, ftOut>>

(* Prepare filter image. *)
ConvolveFTPrepareFilter ==
  /\ ftPc = "filter"
  /\ LET c == ft.call
         filterSpatial == c.filterRepresentation = "spatial"
         pad == SizesLess(c.filter.sizes, <<Len(ft.inFT)>>)
         padded == IF pad THEN Pad(c.filter.data, Len(ft.inFT), CZero) ELSE c.filter.data
         segment == IF pad THEN "filterFT" ELSE "filter"
         transform == FilterTransformSegment(segment, pad)
     IN /\ ft' = [ft EXCEPT
                    !.filterFT = IF filterSpatial THEN FourierTransform(padded, FALSE)
                                 ELSE padded,
                    !.reuseFilterFT = pad \/ filterSpatial,
                    !.real = IF filterSpatial THEN @ /\ IsReal(c.filter.dataType)
                             ELSE FALSE]
        /\ ftMem' = [ftMem EXCEPT
                       !.filterFT = IF filterSpatial THEN transform ELSE segment,
                       !.written = @ \cup (IF pad THEN {"filterFT"} ELSE {})
                                     \cup (IF filterSpatial THEN {transform} ELSE {})]
  /\ ftPc' = "multiply"
  /\ UNCHANGED <<ftArgs, ftErr, ftOut>>

(* Compute output image: the product of the two transforms, written into out
   when out is not real-valued. *)
ConvolveFTMultiply ==
  /\ ftPc = "multiply"
  /\ LET c == ft.call
         outSpatial == c.outRepresentation = "spatial"
         direct == ~outSpatial \/ ~ft.real
         sizes == <<Len(ft.inFT)>>
         keeps == ReForgeKeeps(ftMem.out, sizes, ConvolveFTProductType, FALSE)
         reforge == IF direct
                      THEN ReForgeError(ftMem.out, sizes, ConvolveFTProductType, FALSE)
                    ELSE ""
         outData == IF ~direct \/ keeps THEN ftMem.outData ELSE "reforged"
         segment == IF direct THEN outData
                    ELSE OutFTSegment(ft.reuseInFT, ftMem.inFT, ft.reuseFilterFT,
                                      ftMem.filterFT)
     IN IF reforge # ""
          THEN /\ ftPc' = "error"
               /\ ftErr' = reforge
               /\ UNCHANGED <<ft, ftMem>>
        ELSE IF Len(ft.inFT) # Len(ft.filterFT)
          THEN /\ ftPc' = "error"
               /\ ftErr' = "SIZES_DONT_MATCH"
               /\ UNCHANGED ft
               /\ ftMem' = [ftMem EXCEPT !.outData = outData]
        ELSE /\ ftPc' = "output"
             /\ ft' = [ft EXCEPT !.outFT = MultiplySampleWise(ft.inFT, ft.filterFT)]
             /\ ftMem' = [ftMem EXCEPT !.outData = outData, !.outFT = segment,
                                       !.written = @ \cup {segment}]
             /\ UNCHANGED ftErr
  /\ UNCHANGED <<ftArgs, ftOut>>

(* The inverse transform and the crop, or the product itself. *)
ConvolveFTOutput ==
  /\ ftPc = "output"
  /\ LET c == ft.call
         outSpatial == c.outRepresentation = "spatial"
         tmp == FourierTransform(ft.outFT, TRUE)
         data == IF ~outSpatial THEN ft.outFT
                 ELSE IF ft.inPadding THEN Crop(tmp, c.in.sizes[1])
                 ELSE tmp
         dataType == ConvolveFTOutputType(outSpatial, ft.real)
         o == ftMem.out
         (* the output image as it is now: ReForge may have replaced it *)
         now == IF ftMem.outData = "reforged"
                  THEN OutputImage(TRUE, o.protected, <<Len(ft.outFT)>>, ConvolveFTProductType)
                ELSE o
         err == IF ~outSpatial THEN ""
                ELSE IF ft.inPadding
                  THEN IF now.forged /\ now.protected /\ now.sizes # c.in.sizes
                         THEN "SIZES_DONT_MATCH" ELSE ""
                ELSE ReForgeError(now, <<Len(data)>>, dataType, TRUE)
         mem == IF ~outSpatial THEN ftMem
                ELSE IF ft.inPadding
                  THEN IF now.forged /\ now.protected
                         THEN [ftMem EXCEPT !.written = @ \cup {"tmp", ftMem.outData}]
                       ELSE [ftMem EXCEPT !.written = @ \cup {"tmp"}, !.outData = "tmp"]
                ELSE IF ReForgeKeeps(now, <<Len(data)>>, dataType, TRUE)
                  THEN [ftMem EXCEPT !.written = @ \cup {ftMem.outData}]
                ELSE [ftMem EXCEPT !.written = @ \cup {"reforged"}, !.outData = "reforged"]
     IN IF err # ""
          THEN /\ ftPc' = "error"
               /\ ftErr' = err
               /\ UNCHANGED <<ftOut, ftMem>>
        ELSE /\ ftOut' = [forged |-> TRUE, sizes |-> <<Len(data)>>, data |-> data,
                          dataType |-> IF now.forged /\ now.protected THEN now.dataType
                                       ELSE dataType]
             /\ ftMem' = mem
             /\ ftPc' = "done"
             /\ UNCHANGED ftErr
  /\ UNCHANGED <<ftArgs, ft>>

(***************************************************************************)
(* GeneralConvolution with a kernel that is not binary.  The pixel table   *)
(* of the kernel has one entry per kernel pixel: its offset to the origin  *)
(* (index size / 2) and its weight; Mirror() negates the offsets,          *)
(* IgnoreZeros() drops the entries of weight zero.                         *)
(***************************************************************************)
PixelTable(kernel, mirror, ignoreZeros) ==
  LET origin == Len(kernel) \div 2
      all == [m \in 1..Len(kernel) |->
                [offset |-> IF mirror THEN origin - (m - 1) ELSE (m - 1) - origin,
                 weight |-> kernel[m]]]
      keep(e) == ~ignoreZeros \/ e.weight # CZero
  IN SelectSeq(all, keep)

(* GeneralConvolutionLineFilter::Filter, one output sample. *)
GeneralConvolutionSample(line, table, ii, bc) ==
  CSum([e \in 1..Len(table) |->
          CMul(BoundaryValue(line, ii + table[e].offset, bc), table[e].weight)])

(* Kernel filter{ c_filter }; filter.Mirror(): the kernel's samples, mirrored. *)
GeneralConvolutionKernelUnmirrored(c_filter) == [data |-> c_filter.data, mirror |-> FALSE]

GeneralConvolutionKernel(c_filter) == [data |-> c_filter.data, mirror |-> TRUE]

(* filter.IgnoreZeros(), and the pixel table Framework::Full makes of the kernel. *)
GeneralConvolutionTableWithZeros(kernel) == PixelTable(kernel.data, kernel.mirror, FALSE)

GeneralConvolutionTable(kernel) == PixelTable(kernel.data, kernel.mirror, TRUE)

IsBinary(dataType) == dataType = "BIN"

(* dip::Uniform with a kernel made of a binary image: at every sample, the sum
   of the input samples under the set pixels of the kernel. *)
Uniform(line, kernel, bc) ==
  LET table == PixelTable(kernel.data, kernel.mirror, TRUE)
  IN [ii \in 1..Len(line) |->
        CSum([e \in 1..Len(table) |-> BoundaryValue(line, (ii - 1) + table[e].offset, bc)])]

(* The line filter GeneralConvolution runs, or the function it leaves the work to. *)
GeneralConvolutionLineFilter(c_filter) ==
  IF IsBinary(c_filter.dataType) THEN "Uniform" ELSE "GeneralConvolutionLineFilter"

GeneralConvolutionResult(in, c_filter, boundaryCondition) ==
  LET kernel == GeneralConvolutionKernel(c_filter)
      table == GeneralConvolutionTable(kernel)
      bc == BoundaryConditionOf(boundaryCondition, 1)
  IN IF GeneralConvolutionError(in, c_filter) # ""
       THEN [err |-> GeneralConvolutionError(in, c_filter), data |-> <<>>]
     ELSE IF IsBinary(c_filter.dataType)
       THEN [err |-> "", data |-> Uniform(in.data, kernel, bc)]
     ELSE [err |-> "",
           data |-> [ii \in 1..Len(in.data) |->
                       GeneralConvolutionSample(in.data, table, ii - 1, bc)]]

GeneralConvolutionRun ==
  /\ ftPc = "strategy"
  /\ ft.call.fn = "GeneralConvolution"
  /\ LET r == GeneralConvolutionResult(ft.call.in, ft.call.filter, ft.call.boundaryCondition)
         lineFilter == GeneralConvolutionLineFilter(ft.call.filter)
     IN IF r.err # ""
          THEN /\ ftPc' = "error"
               /\ ftErr' = r.err
               /\ UNCHANGED <<ftOut, ft>>
        ELSE /\ ftPc' = "done"
             /\ ftOut' = [forged |-> TRUE, sizes |-> ft.call.in.sizes, data |-> r.data,
                          dataType |-> SuggestFlex(ft.call.in.dataType)]
             /\ ft' = [ft EXCEPT
                         !.lineFilter = lineFilter,
                         !.pixelTable =
                           IF lineFilter = "Uniform" THEN <<>>
                           ELSE GeneralConvolutionTable(
                                  GeneralConvolutionKernel(ft.call.filter))]
             /\ UNCHANGED ftErr
  /\ UNCHANGED <<ftArgs, ftMem>>

(***************************************************************************)
(* SeparableConvolution as Convolution calls it, with the filters          *)
(* dip::SeparateFilter makes of a 1-D kernel: its samples, as a general    *)
(* filter with the default origin.                                         *)
(***************************************************************************)
SeparateFilter(filter) ==
  <<OneDimensionalFilter([k \in 1..Len(filter.data) |-> Re(filter.data[k])], 0 - 1,
                         "general", FALSE)>>

SeparableConvolutionRun ==
  /\ ftPc = "strategy"
  /\ ft.call.fn = "SeparableConvolution"
  /\ LET r == SeparableConvolutionResult(
                SepArgs(ft.call.in, SeparateFilter(ft.call.filter),
                        ft.call.boundaryCondition, <<>>), CZero)
     IN IF r.err # ""
          THEN /\ ftPc' = "error"
               /\ ftErr' = r.err
               /\ UNCHANGED ftOut
        ELSE /\ ftPc' = "done"
             /\ ftOut' = [forged |-> TRUE, sizes |-> ft.call.in.sizes, data |-> r.data,
                          dataType |-> SuggestFlex(ft.call.in.dataType)]
             /\ UNCHANGED ftErr
  /\ UNCHANGED <<ftArgs, ft, ftMem>>

(***************************************************************************)
(* Convolution on these images: the implementation it calls.  A 1-D kernel *)
(* always separates.                                                       *)
(***************************************************************************)
StrategyCall(fn, in, filter, inRepresentation, filterRepresentation, outRepresentation, boundaryCondition) ==
  [fn |-> fn, in |-> in, filter |-> filter, inRepresentation |-> inRepresentation,
   filterRepresentation |-> filterRepresentation, outRepresentation |-> outRepresentation,
   boundaryCondition |-> boundaryCondition]

ConvolutionStrategy(a) ==
  LET filter == ConvolutionFilter(a)
      m == ConvolutionMethods(a.method, a.in.sizes, filter.sizes)
  IN IF m.trySeparable
       THEN StrategyCall("SeparableConvolution", a.in, filter, "spatial", "spatial",
                         "spatial", a.boundaryCondition)
     ELSE IF UseFourier(m.tryFourier, m.tryDirect, filter.sizes, Dimensionality(a.in))
       THEN StrategyCall("ConvolveFT", a.in, filter, "spatial", "spatial", "spatial",
                         FourierBoundaryCondition(a.boundaryCondition))
     ELSE StrategyCall("GeneralConvolution", a.in, filter, "spatial", "spatial", "spatial",
                       a.boundaryCondition)

ConvolutionDispatch ==
  /\ ftPc = "call"
  /\ IF ConvolutionCheckError(ftArgs) # ""
       THEN /\ ftPc' = "error"
            /\ ftErr' = ConvolutionCheckError(ftArgs)
            /\ UNCHANGED ft
     ELSE /\ ftPc' = "strategy"
          /\ ft' = [ft EXCEPT !.call = ConvolutionStrategy(ftArgs)]
          /\ UNCHANGED ftErr
  /\ UNCHANGED <<ftArgs, ftOut, ftMem>>

(***************************************************************************)
(* The calls the model makes.                                              *)
(***************************************************************************)
(* The kernels of 1 to MaxLen samples 0 or 1, and two of other weights. *)
KernelLines ==
  {RealSamples(v) : v \in (SeqsUpTo({0, 1}, MaxLen) \ {<<>>}) \cup {<<2>>, <<1, 2>>}}
Kernels1D == {Image(<<Len(k)>>, k, "SFLOAT") : k \in KernelLines}
Representations == {"spatial", "frequency"}
FtBoundaryConditions == {<<>>, <<"periodic">>, <<"add zeros">>, <<"asym mirror">>}

FtCall(fn, in, filter_c, method, inRepresentation, filterRepresentation, outRepresentation, boundaryCondition) ==
  [fn |-> fn, in |-> in, filter_c |-> filter_c, method |-> method,
   inRepresentation |-> inRepresentation, filterRepresentation |-> filterRepresentation,
   outRepresentation |-> outRepresentation, boundaryCondition |-> boundaryCondition]

(* An image of the frequency domain: the transform of a spatial one. *)
Transformed(image) ==
  [image EXCEPT !.data = FourierTransform(@, FALSE), !.dataType = "SCOMPLEX"]

FtCallEntered ==
  \/ \E fn \in {"ConvolveFT", "GeneralConvolution"}, in \in Images1D, k \in Kernels1D,
        bc \in FtBoundaryConditions :
       ftArgs = FtCall(fn, in, k, "", "spatial", "spatial", "spatial", bc)
  \/ \E in \in Images1D, k \in Kernels1D,
        m \in {"separable", "Fourier", "direct", "best", ""},
        bc \in {<<>>, <<"periodic">>} :
       ftArgs = FtCall("Convolution", in, k, m, "spatial", "spatial", "spatial", bc)
  \/ \E in \in {Image(<<MaxLen>>, RealSamples([i \in 1..MaxLen |-> i % 2]), "SFLOAT")},
        k \in {Image(<<2>>, RealSamples(<<1, 2>>), "SFLOAT"),
               Image(<<MaxLen>>, RealSamples([i \in 1..MaxLen |-> 1]), "SFLOAT")},
        ir \in Representations, fr \in Representations,
        orep \in Representations \cup {"time"}, bc \in {<<>>, <<"periodic">>},
        dt \in {"SFLOAT", "SCOMPLEX"} :
       ftArgs = FtCall("ConvolveFT",
                       IF ir = "spatial" THEN [in EXCEPT !.dataType = dt]
                       ELSE Transformed(in),
                       IF fr = "spatial" THEN k ELSE Transformed(k), "", ir, fr, orep, bc)

BinaryKernels1D ==
  {Image(<<Len(k)>>, k, "BIN") : k \in {RealSamples(v) : v \in SeqsUpTo({0, 1}, MaxLen) \ {<<>>}}}

(* GeneralConvolution with a binary kernel. *)
BinaryKernelCallEntered ==
  \E in \in Images1D, k \in BinaryKernels1D, bc \in {<<>>, <<"periodic">>} :
    ftArgs = FtCall("GeneralConvolution", in, k, "", "spatial", "spatial", "spatial", bc)

(* The output image given to the call: a raw image, or for the ConvolveFT calls
   on the image of MaxLen samples a forged one, protected or not, of these or
   another size and a real or complex sample type. *)
FtOutputEntered ==
  \/ ftMem = Segments(RawOutput)
  \/ /\ ftArgs.fn = "ConvolveFT"
     /\ ftArgs.in.sizes = <<MaxLen>>
     /\ \E protected \in BOOLEAN, sizes \in {<<MaxLen>>, <<MaxLen + 1>>},
           dt \in {"SFLOAT", "SCOMPLEX"} :
          ftMem = Segments(OutputImage(TRUE, protected, sizes, dt))

CallOf(a) ==
  StrategyCall(a.fn, a.in, a.filter_c, a.inRepresentation, a.filterRepresentation,
               a.outRepresentation, a.boundaryCondition)


(***************************************************************************)
(* Arithmetic on images with singleton-expanded dimensions                 *)
(* (src/src/math/arithmetic.cpp).                                          *)
(*                                                                         *)
(*   scanLhs  the image: sizes, strides (in samples) and the data segment  *)
(*   scanRhs  the scalar added to it                                       *)
(*   scanOut  the output image of Add                                      *)
(*   scanPc   "idle", "forged" (the image exists), "done" (Add returned)   *)
(*                                                                         *)
(* Dimensions are numbered from 1, coordinates and strides from 0.         *)
(***************************************************************************)
VARIABLES scanLhs, scanRhs, scanOut, scanPc

scanVars == <<scanLhs, scanRhs, scanOut, scanPc>>

NoStridedImage == [sizes |-> <<>>, strides |-> <<>>, data |-> <<>>]

(* An image as Image{ sizes, 1, dt } forges it: normal strides. *)
NormalStrides(sizes) == [d \in 1..Len(sizes) |-> Product(SubSeq(sizes, 1, d - 1))]

ForgedImage(sizes, data) == [sizes |-> sizes, strides |-> NormalStrides(sizes), data |-> data]

Coordinates(sizes) ==
  {c \in [1..Len(sizes) -> 0..MaxSide + 1] : \A d \in 1..Len(sizes) : c[d] < sizes[d]}

Offset(image, coords) == SumOf([d \in 1..Len(coords) |-> coords[d] * image.strides[d]])

At(image, coords) == image.data[1 + Offset(image, coords)]

(* Image::ExpandSingletonDimension( dim, sz ): no data is copied. *)
ExpandSingletonDimension(image, dim, sz) ==
  [image EXCEPT !.sizes[dim] = sz, !.strides[dim] = 0]

IsSingletonExpandedAlong(image, dim) == image.sizes[dim] > 1 /\ image.strides[dim] = 0

IsSingletonExpanded(image) ==
  \E dim \in 1..Len(image.sizes) : IsSingletonExpandedAlong(image, dim)

(* The scalar as ScanDyadic sees it: a 0-D image expanded to the sizes of the
   other operand, every stride 0. *)
ScalarImage(value, sizes) ==
  [sizes |-> sizes, strides |-> [d \in 1..Len(sizes) |-> 0], data |-> <<value>>]

(* dip::saturated_add and dip::saturated_sub on floating-point samples. *)
saturated_add(a, b) == a + b

saturated_sub(a, b) == a - b

(* Framework::NewDyadicScanLineFilter: the function applied to each pair of samples. *)
DyadicScanLineFilter(scanLineFilter, a, b) ==
  IF scanLineFilter = "saturated_add" THEN saturated_add(a, b) ELSE saturated_sub(a, b)

(* Framework::Scan: a dimension along which every input is singleton-expanded
   is processed as one of size 1, and the output is singleton-expanded along
   it afterwards. *)
Scan(ins, sizes, scanLineFilter) ==
  LET same(d) == \A i \in 1..Len(ins) : ins[i].strides[d] = 0
      procSizes == [d \in 1..Len(sizes) |-> IF same(d) THEN 1 ELSE sizes[d]]
      strides == NormalStrides(procSizes)
      coordsOf(k) == [d \in 1..Len(sizes) |-> ((k - 1) \div strides[d]) % procSizes[d]]
      data == [k \in 1..Product(procSizes) |->
                 DyadicScanLineFilter(scanLineFilter,
                                      At(ins[1], coordsOf(k)), At(ins[2], coordsOf(k)))]
  IN [sizes |-> sizes,
      strides |-> [d \in 1..Len(sizes) |-> IF same(d) THEN 0 ELSE strides[d]],
      data |-> data]

AddSubtracting(lhs, rhs) ==
  Scan(<<lhs, ScalarImage(rhs, lhs.sizes)>>, lhs.sizes, "saturated_sub")

(* dip::Add with a scalar right-hand side. *)
Add(lhs, rhs) ==
  Scan(<<lhs, ScalarImage(rhs, lhs.sizes)>>, lhs.sizes, "saturated_add")

SampleValues == 0..2

ScanImageForged ==
  \E a \in 1..(MaxSide + 1), b \in 1..(MaxSide + 1), base \in SampleValues, step \in SampleValues :
    scanLhs = ForgedImage(<<a, b>>, [k \in 1..(a * b) |-> (base + (k - 1) * step) % 3])

ScanExpand ==
  /\ scanPc = "forged"
  /\ \E dim \in 1..Len(scanLhs.sizes), sz \in 2..(MaxSide + 1) :
       /\ scanLhs.sizes[dim] = 1
       /\ scanLhs' = ExpandSingletonDimension(scanLhs, dim, sz)
  /\ UNCHANGED <<scanRhs, scanOut, scanPc>>

ScanAdd ==
  /\ scanPc = "forged"
  /\ \E rhs \in SampleValues :
       /\ scanRhs' = rhs
       /\ scanOut' = Add(scanLhs, rhs)
  /\ scanPc' = "done"
  /\ UNCHANGED scanLhs

(***************************************************************************)
(* dip::Multiply on tensor images (src/src/math/arithmetic.cpp).  One      *)
(* pixel is followed: every pixel is computed alike.                       *)
(*                                                                         *)
(*   mulLhs, mulRhs  the operands: tensor (shape, rows, cols), the samples *)
(*                   of the pixel in storage order, and the data segment   *)
(*                   the image views                                       *)
(*   mulOut          the output pixel, with its tensor                     *)
(*   mulErr          what Multiply threw                                   *)
(*   mulPc           "idle", "forged", "done", "error"                     *)
(*   mulDataTypes    the data types of lhs and rhs, and the argument       *)
(*                   dt_out                                                *)
(*   mulOutDataType  the data type of the output image, "" while it is raw *)
(*                                                                         *)
(* Rows, columns and storage positions are numbered from 0.                *)
(***************************************************************************)
VARIABLES mulLhs, mulRhs, mulOut, mulErr, mulPc, mulDataTypes, mulOutDataType

mulVars == <<mulLhs, mulRhs, mulOut, mulErr, mulPc, mulDataTypes, mulOutDataType>>

MaxTensor == 2

Tensor(shape, rows, cols) == [shape |-> shape, rows |-> rows, cols |-> cols]

(* Tensor( rows, cols ): a vector when it can be one, else a column-major matrix. *)
MatrixTensor(rows, cols) ==
  IF cols = 1 THEN Tensor("COL_VECTOR", rows, 1)
  ELSE IF rows = 1 THEN Tensor("ROW_VECTOR", 1, cols)
  ELSE Tensor("COL_MAJOR_MATRIX", rows, cols)

TensorImage(tensor, data, view) == [tensor |-> tensor, data |-> data, view |-> view]

NoTensorImage == TensorImage(Tensor("COL_VECTOR", 1, 1), <<>>, "")

Triangle(n) == (n * (n + 1)) \div 2

Elements(tensor) ==
  CASE tensor.shape \in {"COL_VECTOR", "ROW_VECTOR", "COL_MAJOR_MATRIX", "ROW_MAJOR_MATRIX"} ->
         tensor.rows * tensor.cols
    [] tensor.shape = "DIAGONAL_MATRIX" -> tensor.rows
    [] OTHER -> Triangle(tensor.rows)

IsScalar(image) == Elements(image.tensor) = 1
IsVector(tensor) == tensor.shape \in {"COL_VECTOR", "ROW_VECTOR"}
IsDiagonal(tensor) == tensor.shape = "DIAGONAL_MATRIX"
IsSymmetric(tensor) == tensor.shape = "SYMMETRIC_MATRIX"
IsTriangular(tensor) == tensor.shape \in {"UPPTRIANG_MATRIX", "LOWTRIANG_MATRIX"}
HasNormalOrder(tensor) == tensor.shape \notin {"ROW_MAJOR_MATRIX", "LOWTRIANG_MATRIX"}

(* Tensor::Transpose. *)
TransposedTensor(tensor) ==
  LET shape == CASE tensor.shape = "COL_VECTOR" -> "ROW_VECTOR"
                 [] tensor.shape = "ROW_VECTOR" -> "COL_VECTOR"
                 [] tensor.shape = "COL_MAJOR_MATRIX" -> "ROW_MAJOR_MATRIX"
                 [] tensor.shape = "ROW_MAJOR_MATRIX" -> "COL_MAJOR_MATRIX"
                 [] tensor.shape = "UPPTRIANG_MATRIX" -> "LOWTRIANG_MATRIX"
                 [] tensor.shape = "LOWTRIANG_MATRIX" -> "UPPTRIANG_MATRIX"
                 [] OTHER -> tensor.shape
  IN Tensor(shape, tensor.cols, tensor.rows)

(* Image::Transpose: the same samples under the transposed tensor. *)
Transpose(image) == [image EXCEPT !.tensor = TransposedTensor(@)]

ReshapeTensor(image, tensor) == [image EXCEPT !.tensor = tensor]

(* Image::IsIdenticalView: the same samples of the same data segment. *)
IsIdenticalView(a, b) == a.view = b.view /\ Len(a.data) = Len(b.data)

(* Where the tensor keeps element (i, j): vectors and full matrices in their
   order, a diagonal matrix its diagonal, a symmetric or triangular matrix the
   diagonal first and then the elements above it column by column. *)
StoredAt(tensor, i, j) ==
  LET a == IF i < j THEN i ELSE j
      b == IF i < j THEN j ELSE i
      packed == IF i = j THEN i ELSE tensor.rows + ((b * (b - 1)) \div 2) + a
  IN CASE tensor.shape = "COL_VECTOR" -> i
       [] tensor.shape = "ROW_VECTOR" -> j
       [] tensor.shape = "COL_MAJOR_MATRIX" -> i + j * tensor.rows
       [] tensor.shape = "ROW_MAJOR_MATRIX" -> i * tensor.cols + j
       [] tensor.shape = "DIAGONAL_MATRIX" -> IF i = j THEN i ELSE -1
       [] tensor.shape = "SYMMETRIC_MATRIX" -> packed
       [] tensor.shape = "UPPTRIANG_MATRIX" -> IF i <= j THEN packed ELSE -1
       [] OTHER -> IF i >= j THEN packed ELSE -1

Element(image, i, j) ==
  IF StoredAt(image.tensor, i, j) < 0 THEN 0
  ELSE image.data[StoredAt(image.tensor, i, j) + 1]

(* ScanOption::ExpandTensorInBuffer: the buffer holds the tensor as a full
   column-major matrix. *)
ExpandTensorInBuffer(image) ==
  [k \in 1..(image.tensor.rows * image.tensor.cols) |->
     Element(image, (k - 1) % image.tensor.rows, (k - 1) \div image.tensor.rows)]

(* MultiplyLineFilter::Filter on one pixel. *)
MultiplyLineFilter(lhs, rhs, nRows, nColumns, nInner) ==
  [k \in 1..(nRows * nColumns) |->
     LET row == (k - 1) % nRows
         col == (k - 1) \div nRows
     IN SumOf([jj \in 1..nInner |->
                 lhs[row + (jj - 1) * nRows + 1] * rhs[col * nInner + (jj - 1) + 1]])]

(* Position k of a symmetric matrix's storage beyond the diagonal: its column
   and its row, as the loops of the line filters reach it. *)
PackedCol(k) == CHOOSE col \in 1..(k + 1) : Triangle(col - 1) <= k /\ k < Triangle(col)
PackedRow(k) == k - Triangle(PackedCol(k) - 1)

(* MultiplySymmetricLineFilter::Filter on one pixel. *)
MultiplySymmetricLineFilter(in, nOuter, nInner) ==
  [k \in 1..Triangle(nOuter) |->
     LET lhsCol == IF k <= nOuter THEN k - 1 ELSE PackedRow(k - 1 - nOuter)
         rhsCol == IF k <= nOuter THEN k - 1 ELSE PackedCol(k - 1 - nOuter)
     IN SumOf([jj \in 1..nInner |->
                 in[lhsCol * nInner + jj] * in[rhsCol * nInner + jj]])]

(* MultiplyDiagonalLineFilter::Filter on one pixel.  In the symmetric case
   rhsT is reset to the first diagonal element before the elements above the
   diagonal and advances once per column. *)
MultiplyDiagonalLineFilter(lhs, rhs, lhsTensor, transposeOutput) ==
  LET N == lhsTensor.cols
      M == lhsTensor.rows
      lhsRowStride == IF HasNormalOrder(lhsTensor) THEN 1 ELSE N
      lhsColStride == IF HasNormalOrder(lhsTensor) THEN M ELSE 1
  IN IF IsSymmetric(lhsTensor)
       THEN [k \in 1..Elements(lhsTensor) |->
               lhs[k] * rhs[IF k <= N THEN k ELSE (PackedCol(k - 1 - N) - 1) + 1]]
     ELSE [k \in 1..(M * N) |->
             LET m == IF transposeOutput THEN (k - 1) \div N ELSE (k - 1) % M
                 n == IF transposeOutput THEN (k - 1) % N ELSE (k - 1) \div M
             IN lhs[m * lhsRowStride + n * lhsColStride + 1] * rhs[n + 1]]

(* dip::MultiplySampleWise on one pixel: a scalar operand is expanded. *)
TensorMultiplySampleWise(lhs, rhs) ==
  LET tensor == IF IsScalar(lhs) THEN rhs.tensor ELSE lhs.tensor
      at(image, k) == IF IsScalar(image) THEN image.data[1] ELSE image.data[k]
  IN [err |-> "",
      out |-> TensorImage(tensor, [k \in 1..Elements(tensor) |-> at(lhs, k) * at(rhs, k)], "out")]

Returned(tensor, data) == [err |-> "", out |-> TensorImage(tensor, data, "out")]

(* The branch of Multiply for a diagonal operand and no triangular one. *)
MultiplyDiagonal(lhs, rhs) ==
  LET lhs_copy == IF ~IsVector(lhs.tensor) /\ IsVector(rhs.tensor)
                    THEN ReshapeTensor(lhs, rhs.tensor) ELSE lhs
      rhs_copy == IF IsVector(lhs.tensor) THEN ReshapeTensor(rhs, lhs.tensor) ELSE rhs
      transposeOutput == IsDiagonal(lhs_copy.tensor)
      full == IF transposeOutput THEN Transpose(rhs_copy) ELSE lhs_copy
      diag == IF transposeOutput THEN lhs_copy ELSE rhs_copy
      given == IF transposeOutput THEN rhs_copy.tensor ELSE lhs_copy.tensor
      outTensor == IF given.shape = "ROW_MAJOR_MATRIX"
                     THEN Tensor("COL_MAJOR_MATRIX", given.rows, given.cols)
                   ELSE given
  IN IF \/ IsDiagonal(lhs_copy.tensor) /\ IsDiagonal(rhs_copy.tensor)
        \/ IsVector(lhs_copy.tensor) /\ IsVector(rhs_copy.tensor)
       THEN Returned(IF IsVector(rhs.tensor) THEN rhs.tensor ELSE lhs.tensor,
                     TensorMultiplySampleWise(lhs_copy, rhs_copy).out.data)
     ELSE Returned(outTensor,
                   MultiplyDiagonalLineFilter(full.data, diag.data, full.tensor,
                                              transposeOutput))

(* dip::Multiply. *)
Multiply(lhs, rhs) ==
  IF IsScalar(lhs) \/ IsScalar(rhs) THEN TensorMultiplySampleWise(lhs, rhs)
  ELSE IF lhs.tensor.cols # rhs.tensor.rows
    THEN [err |-> "Inner tensor dimensions must match in multiplication",
          out |-> NoTensorImage]
  ELSE IF TransposedTensor(lhs.tensor) = rhs.tensor /\ IsIdenticalView(lhs, rhs)
    THEN Returned(Tensor("SYMMETRIC_MATRIX", lhs.tensor.rows, lhs.tensor.rows),
                  MultiplySymmetricLineFilter(ExpandTensorInBuffer(rhs),
                                              lhs.tensor.rows, lhs.tensor.cols))
  ELSE IF /\ IsDiagonal(lhs.tensor) \/ IsDiagonal(rhs.tensor)
          /\ ~(IsTriangular(lhs.tensor) \/ IsTriangular(rhs.tensor))
    THEN MultiplyDiagonal(lhs, rhs)
  ELSE Returned(MatrixTensor(lhs.tensor.rows, rhs.tensor.cols),
                MultiplyLineFilter(ExpandTensorInBuffer(lhs), ExpandTensorInBuffer(rhs),
                                   lhs.tensor.rows, rhs.tensor.cols, lhs.tensor.cols))

(* DataType::SuggestArithmetic: the floating-point type that holds the result
   of arithmetic between the two types. *)
SuggestArithmetic(a, b) ==
  IF SuggestFlex(a) = "DFLOAT" \/ SuggestFlex(b) = "DFLOAT" THEN "DFLOAT" ELSE "SFLOAT"

(* Framework::Scan and Framework::ScanDyadic forge the output image with the
   output data type they are given. *)
ScanOutputDataType(outImageType) == outImageType

(* dip::MultiplySampleWise( lhs, rhs, out, dt_out ): the data type of out. *)
MultiplySampleWiseDataType(dt_out) == ScanOutputDataType(dt_out)

(* The branch of Multiply the operands take. *)
MultiplyBranch(lhs, rhs) ==
  LET lhs_copy == IF ~IsVector(lhs.tensor) /\ IsVector(rhs.tensor)
                    THEN ReshapeTensor(lhs, rhs.tensor) ELSE lhs
      rhs_copy == IF IsVector(lhs.tensor) THEN ReshapeTensor(rhs, lhs.tensor) ELSE rhs
  IN IF IsScalar(lhs) \/ IsScalar(rhs) THEN "scalar"
     ELSE IF lhs.tensor.cols # rhs.tensor.rows THEN "throw"
     ELSE IF TransposedTensor(lhs.tensor) = rhs.tensor /\ IsIdenticalView(lhs, rhs)
       THEN "symmetric"
     ELSE IF /\ IsDiagonal(lhs.tensor) \/ IsDiagonal(rhs.tensor)
             /\ ~(IsTriangular(lhs.tensor) \/ IsTriangular(rhs.tensor))
       THEN IF \/ IsDiagonal(lhs_copy.tensor) /\ IsDiagonal(rhs_copy.tensor)
               \/ IsVector(lhs_copy.tensor) /\ IsVector(rhs_copy.tensor)
              THEN "sample-wise"
            ELSE "diagonal"
     ELSE "general"

(* The data type Multiply( lhs, rhs, out, dt_out ) gives a raw out. *)
MultiplyDataType(lhs, rhs, types) ==
  LET dt == SuggestArithmetic(types.lhs, types.rhs)
      branch == MultiplyBranch(lhs, rhs)
  IN CASE branch = "scalar" -> MultiplySampleWiseDataType(types.dt_out)
       [] branch = "throw" -> ""
       [] branch = "sample-wise" -> MultiplySampleWiseDataType(dt)
       [] OTHER -> ScanOutputDataType(types.dt_out)

(* The tensors of the operands: vectors, full matrices in both orders,
   diagonal, symmetric and triangular matrices. *)
Tensors ==
  {Tensor(shape, n, 1) : shape \in {"COL_VECTOR"}, n \in 1..(MaxTensor + 1)}
    \cup {Tensor("ROW_VECTOR", 1, n) : n \in 2..(MaxTensor + 1)}
    \cup {Tensor(shape, rows, cols) : shape \in {"COL_MAJOR_MATRIX", "ROW_MAJOR_MATRIX"},
                                      rows \in 2..MaxTensor, cols \in 2..(MaxTensor + 1)}
    \cup {Tensor(shape, n, n) : shape \in {"DIAGONAL_MATRIX", "SYMMETRIC_MATRIX",
                                           "UPPTRIANG_MATRIX", "LOWTRIANG_MATRIX"},
                                n \in 2..(MaxTensor + 1)}

Ramp(n, base, step) == [k \in 1..n |-> base + (k - 1) * step]

TensorImages(view) ==
  {TensorImage(t, Ramp(Elements(t), base, step), view) :
     t \in Tensors, base \in 1..2, step \in 1..2}

DataTypes(lhs, rhs, dt_out) == [lhs |-> lhs, rhs |-> rhs, dt_out |-> dt_out]
NoDataTypes == DataTypes("", "", "")

(* The data types: dt_out as Multiply's default has it, the suggested
   arithmetic type, and as the operators have it, the type of lhs. *)
MulOperandsForged ==
  /\ mulLhs \in TensorImages("lhs")
  /\ mulRhs \in TensorImages("rhs")
  /\ mulDataTypes \in {DataTypes("SFLOAT", "SFLOAT", "SFLOAT"),
                       DataTypes("UINT8", "UINT8", "UINT8"),
                       DataTypes("SFLOAT", "DFLOAT", "SFLOAT")}

(* rhs becomes a view of lhs: the image itself or its transposed view. *)
MulViewLhs ==
  /\ mulPc = "forged"
  /\ mulRhs.view = "rhs"
  /\ mulRhs' \in {mulLhs, Transpose(mulLhs)}
  /\ UNCHANGED <<mulLhs, mulOut, mulErr, mulPc, mulDataTypes, mulOutDataType>>

(* lhs becomes the transposed view of rhs. *)
MulViewRhs ==
  /\ mulPc = "forged"
  /\ mulLhs.view = "lhs"
  /\ mulRhs.view = "rhs"
  /\ mulLhs' = Transpose(mulRhs)
  /\ UNCHANGED <<mulRhs, mulOut, mulErr, mulPc, mulDataTypes, mulOutDataType>>

MultiplyRun ==
  /\ mulPc = "forged"
  /\ LET r == Multiply(mulLhs, mulRhs)
     IN /\ mulPc' = IF r.err = "" THEN "done" ELSE "error"
        /\ mulErr' = r.err
        /\ mulOut' = r.out
        /\ mulOutDataType' = MultiplyDataType(mulLhs, mulRhs, mulDataTypes)
  /\ UNCHANGED <<mulLhs, mulRhs, mulDataTypes>>

MulIdle ==
  /\ mulLhs = NoTensorImage
  /\ mulRhs = NoTensorImage
  /\ mulOut = NoTensorImage
  /\ mulErr = ""
  /\ mulPc = "idle"
  /\ mulDataTypes = NoDataTypes
  /\ mulOutDataType = ""

(***************************************************************************)
(* The line filters under the frameworks' threads.                         *)
(*                                                                         *)
(*   lf         the strategy invocation: kind ("separable" or "general"),  *)
(*              the sizes of the 2-D output image, the dimensions still to *)
(*              process (the first is the one being processed), the number *)
(*              of passes and the offsets of the pixel table               *)
(*   lfPc       "idle", "setup" (before SetNumberOfThreads), "scan", "done"*)
(*   lfOffsets  GeneralConvolutionLineFilter::offsets_                     *)
(*   lfAssign   the thread each line of the pass is given to               *)
(*   lfThreads  per thread: the line it filters (-1: none), ii, the out    *)
(*              pointer and the locations this call of Filter has written  *)
(*   lfDone     the lines of the pass whose Filter call has returned       *)
(*   lfWrites   per output sample, how often the invocation has written it *)
(*   lfSets     how often offsets_ has been assigned                       *)
(***************************************************************************)
VARIABLES lf, lfPc, lfOffsets, lfAssign, lfThreads, lfDone, lfWrites, lfSets

lfVars == <<lf, lfPc, lfOffsets, lfAssign, lfThreads, lfDone, lfWrites, lfSets>>

MaxThreads == 2

Threads == 1..MaxThreads

NoThread == [line |-> -1, ii |-> 0, out |-> 0, written |-> <<>>]

NoInvocation == [kind |-> "", sizes |-> <<>>, dims |-> <<>>, passes |-> 0, offsets |-> <<>>]

(* GeneralConvolutionLineFilter::SetNumberOfThreads; the separable line filter
   does not override it and keeps no such list. *)
SetNumberOfThreads(kind, offsets_, pixelTableOffsets) ==
  IF kind = "general" THEN pixelTableOffsets ELSE offsets_

FilterOffsetsConsumed(offsets_) == IF offsets_ = <<>> THEN <<>> ELSE Tail(offsets_)

(* offsets_ after one iteration of Filter's loop over ii: ito and itw are
   iterators over offsets_ and the weights, nothing is assigned. *)
FilterOffsets(offsets_) == offsets_

NextOutUnitStride(outPtr, outStride) == outPtr + 1

(* out += outStride *)
NextOut(outPtr, outStride) == outPtr + outStride

LfSetNumberOfThreads ==
  /\ lfPc = "setup"
  /\ lfOffsets' = SetNumberOfThreads(lf.kind, lfOffsets, lf.offsets)
  /\ lfSets' = IF lf.kind = "general" THEN lfSets + 1 ELSE lfSets
  /\ lfAssign' \in [Lines(lf.sizes, Head(lf.dims)) -> Threads]
  /\ lfPc' = "scan"
  /\ UNCHANGED <<lf, lfThreads, lfDone, lfWrites>>

(* A thread enters Filter for one of its lines. *)
LfStartLine(t, l) ==
  /\ lfPc = "scan"
  /\ lfThreads[t].line = -1
  /\ l \in Lines(lf.sizes, Head(lf.dims)) \ lfDone
  /\ lfAssign[l] = t
  /\ lfThreads' = [lfThreads EXCEPT ![t] =
                     [line |-> l, ii |-> 0, out |-> LineStart(lf.sizes, Head(lf.dims), l),
                      written |-> <<>>]]
  /\ UNCHANGED <<lf, lfPc, lfOffsets, lfAssign, lfDone, lfWrites, lfSets>>

(* One iteration of the loop over ii: *out = sum; out += outStride. *)
LfFilterSample(t) ==
  /\ lfPc = "scan"
  /\ lfThreads[t].line # -1
  /\ lfThreads[t].ii < lf.sizes[Head(lf.dims)]
  /\ lfWrites' = [lfWrites EXCEPT ![lfThreads[t].out] = @ + 1]
  /\ lfThreads' = [lfThreads EXCEPT ![t] =
                     [@ EXCEPT !.ii = @ + 1,
                               !.out = NextOut(@, Stride(lf.sizes, Head(lf.dims))),
                               !.written = Append(@, lfThreads[t].out)]]
  /\ lfOffsets' = FilterOffsets(lfOffsets)
  /\ UNCHANGED <<lf, lfPc, lfAssign, lfDone, lfSets>>

(* Filter returns. *)
LfEndLine(t) ==
  /\ lfPc = "scan"
  /\ lfThreads[t].line # -1
  /\ lfThreads[t].ii = lf.sizes[Head(lf.dims)]
  /\ lfDone' = lfDone \cup {lfThreads[t].line}
  /\ lfThreads' = [lfThreads EXCEPT ![t] = NoThread]
  /\ UNCHANGED <<lf, lfPc, lfOffsets, lfAssign, lfWrites, lfSets>>

(* Every line of the pass is done: the next dimension, or the end. *)
LfEndPass ==
  /\ lfPc = "scan"
  /\ lfDone = Lines(lf.sizes, Head(lf.dims))
  /\ lfDone' = {}
  /\ lf' = [lf EXCEPT !.dims = Tail(@)]
  /\ IF Tail(lf.dims) = <<>>
       THEN /\ lfPc' = "done"
            /\ UNCHANGED lfAssign
     ELSE /\ lfPc' = "scan"
          /\ lfAssign' \in [Lines(lf.sizes, Head(Tail(lf.dims))) -> Threads]
  /\ UNCHANGED <<lfOffsets, lfThreads, lfWrites, lfSets>>

LfInvoked ==
  \E w \in 1..MaxSide, h \in 1..MaxSide :
    \/ \E dims \in {<<1>>, <<2>>, <<1, 2>>} :
         lf = [kind |-> "separable", sizes |-> <<w, h>>, dims |-> dims, passes |-> Len(dims),
               offsets |-> <<>>]
    \/ \E d \in 1..2, offsets \in {<<0>>, <<-1, 0, 1>>} :
         lf = [kind |-> "general", sizes |-> <<w, h>>, dims |-> <<d>>, passes |-> 1,
               offsets |-> offsets]

LfIdle ==
  /\ lf = NoInvocation
  /\ lfPc = "idle"
  /\ lfOffsets = <<>>
  /\ lfAssign = <<>>
  /\ lfThreads = <<>>
  /\ lfDone = {}
  /\ lfWrites = <<>>
  /\ lfSets = 0

(***************************************************************************)
(* RichardsonLucy and RichardsonLucyTotalVariation                         *)
(* (the deconvolution source kept in src/src/documentation/styleguide.md). *)
(*                                                                         *)
(*   rlArgs     the call: fn, in and psf (forged, scalar, real, sizes) and *)
(*              the option strings                                         *)
(*   rlPc       "idle", "call", "options", "otf", "transform", "iterate",  *)
(*              "done", "error"                                            *)
(*   rlErr      what the call threw                                        *)
(*   rlIsOtf    the local isOtf                                            *)
(*   rlWritten  whether the output image has been written                  *)
(***************************************************************************)
VARIABLES rlArgs, rlPc, rlErr, rlIsOtf, rlWritten

rlVars == <<rlArgs, rlPc, rlErr, rlIsOtf, rlWritten>>

DeconvolutionImage(forged, scalar, real, sizes) ==
  [forged |-> forged, scalar |-> scalar, real |-> real, sizes |-> sizes]

(* The three DIP_THROW_IF at the top of both functions. *)
RichardsonLucyCheckError(in, psf) ==
  IF ~in.forged \/ ~psf.forged THEN "IMAGE_NOT_FORGED"
  ELSE IF ~in.scalar \/ ~psf.scalar THEN "IMAGE_NOT_SCALAR"
  ELSE IF ~in.real THEN "DATA_TYPE_NOT_SUPPORTED"
  ELSE ""

(* ParseRichardsonLucyOptions: "OTF" is the only option. *)
ParseRichardsonLucyOptions(options) ==
  IF options \subseteq {"OTF"} THEN [err |-> "", isOtf |-> "OTF" \in options]
  ELSE [err |-> "INVALID_FLAG", isOtf |-> FALSE]

(* GetOTF: an OTF must have the sizes of the image; a PSF must be real and
   not larger than the image, and is padded and transformed. *)
GetOTFError(psf, sizes, isOtf) ==
  IF isOtf THEN (IF psf.sizes # sizes THEN "SIZES_DONT_MATCH" ELSE "")
  ELSE IF ~psf.real THEN "DATA_TYPE_NOT_SUPPORTED"
  ELSE IF ~SizesLeq(psf.sizes, sizes) THEN "INDEX_OUT_OF_RANGE"
  ELSE ""

NothingThrown(fn) == ""

(* DIP_THROW( E::NOT_IMPLEMENTED ), in both functions. *)
NotImplemented(fn) == "NOT_IMPLEMENTED"

RichardsonLucyCheck ==
  /\ rlPc = "call"
  /\ LET err == RichardsonLucyCheckError(rlArgs.in, rlArgs.psf)
     IN /\ rlPc' = IF err # "" THEN "error" ELSE "options"
        /\ rlErr' = err
  /\ UNCHANGED <<rlArgs, rlIsOtf, rlWritten>>

RichardsonLucyOptions ==
  /\ rlPc = "options"
  /\ LET r == ParseRichardsonLucyOptions(rlArgs.options)
     IN /\ rlPc' = IF r.err # "" THEN "error" ELSE "otf"
        /\ rlErr' = r.err
        /\ rlIsOtf' = r.isOtf
  /\ UNCHANGED <<rlArgs, rlWritten>>

(* H = GetOTF( psf, in.Sizes(), isOtf ) *)
RichardsonLucyGetOTF ==
  /\ rlPc = "otf"
  /\ LET err == GetOTFError(rlArgs.psf, rlArgs.in.sizes, rlIsOtf)
     IN /\ rlPc' = IF err # "" THEN "error" ELSE "transform"
        /\ rlErr' = err
  /\ UNCHANGED <<rlArgs, rlIsOtf, rlWritten>>

(* Image G = FourierTransform( in ): a new image, the output is not involved. *)
RichardsonLucyTransform ==
  /\ rlPc = "transform"
  /\ rlPc' = "iterate"
  /\ UNCHANGED <<rlArgs, rlErr, rlIsOtf, rlWritten>>

(* DIP_THROW( E::NOT_IMPLEMENTED ) stands where the iterations would be; the
   inverse transform into the output image follows it. *)
RichardsonLucyIterate ==
  /\ rlPc = "iterate"
  /\ LET err == NotImplemented(rlArgs.fn)
     IN IF err # ""
          THEN /\ rlPc' = "error"
               /\ rlErr' = err
               /\ UNCHANGED rlWritten
        ELSE /\ rlPc' = "done"
             /\ rlWritten' = TRUE
             /\ UNCHANGED rlErr
  /\ UNCHANGED <<rlArgs, rlIsOtf>>

RlCallEntered ==
  \E fn \in {"RichardsonLucy", "RichardsonLucyTotalVariation"},
     f1 \in BOOLEAN, s1 \in BOOLEAN, r1 \in BOOLEAN,
     f2 \in BOOLEAN, s2 \in BOOLEAN, r2 \in BOOLEAN,
     psfSizes \in {<<MaxLen - 1>>, <<MaxLen>>, <<MaxLen + 1>>},
     options \in SUBSET {"OTF", "simple"} :
    rlArgs = [fn |-> fn, in |-> DeconvolutionImage(f1, s1, r1, <<MaxLen>>),
              psf |-> DeconvolutionImage(f2, s2, r2, psfSizes), options |-> options]

RlIdle ==
  /\ rlArgs = <<>>
  /\ rlPc = "idle"
  /\ rlErr = ""
  /\ rlIsOtf = FALSE
  /\ rlWritten = FALSE

(***************************************************************************)
(* ConvolveFT on images of one or two dimensions: the sizes of its images. *)
(*                                                                         *)
(*   fsArgs  the call in progress: the sizes of in and filter, the three   *)
(*           representations and boundaryCondition                         *)
(*   fsPc    where it is: "idle", "call" (entered), "input" (inputs        *)
(*           tested), "filter" (input prepared), "multiply" (filter        *)
(*           prepared), "done" (MultiplySampleWise returned), "error"      *)
(*   fsErr   what it threw                                                 *)
(*   fs      its locals: the sizes of filterFT and inFT, inPadding, the    *)
(*           dimension indices filter.Size was called with, whether the    *)
(*           filter was padded, the sizes of the two operands handed to    *)
(*           MultiplySampleWise and the sizes of outFT                     *)
(***************************************************************************)
VARIABLES fsArgs, fsPc, fsErr, fs

fsVars == <<fsArgs, fsPc, fsErr, fs>>

NoSizes ==
  [filterFT |-> <<>>, inFT |-> <<>>, inPadding |-> FALSE, queried |-> {}, padded |-> FALSE,
   operands |-> <<>>, outFT |-> <<>>]

(* Image::Size( dim ) returns sizes_[ dim ] without a test of dim: for an
   index the image does not have it reads past the end of the array, and
   returns what the memory there holds, `garbage`. *)
Size(image, dim, garbage) ==
  IF dim < Dimensionality(image) THEN image.sizes[dim + 1] ELSE garbage
GarbageSizes == {1, 2, 3}

(* Ensure `filter` has the right dimensionality: filterFT's sizes. *)
ConvolveFTFilterCopy(in, filter) ==
  IF Dimensionality(filter) < Dimensionality(in)
    THEN ExpandDimensionality(filter.sizes, Dimensionality(in))
  ELSE filter.sizes

(* Pad the input image with at least the size of `filter`. *)
ConvolveFTInputSizes(in, filter, garbage) ==
  [ii \in 1..Dimensionality(in) |->
     OptimalFourierTransformSize(in.sizes[ii] + Size(filter, ii - 1, garbage) - 1)]

(* MultiplySampleWise is a dyadic scan: singleton expansion brings the two
   operands to one size, or the sizes do not match. *)
SingletonExpandedSizes(a, b) ==
  [k \in 1..Len(a) |-> IF a[k] = 1 THEN b[k] ELSE a[k]]
MultiplySampleWiseError(a, b) ==
  IF Len(a) # Len(b) THEN "DIMENSIONALITIES_DONT_MATCH"
  ELSE IF \E k \in 1..Len(a) : a[k] # b[k] /\ a[k] # 1 /\ b[k] # 1 THEN "SIZES_DONT_MATCH"
  ELSE ""

(* Test inputs. *)
ConvolveFTTestInputs ==
  /\ fsPc = "call"
  /\ LET a == fsArgs
         err == ConvolveFTError(a.in, a.filter, a.inRepresentation, a.filterRepresentation,
                                a.outRepresentation)
     IN IF err # ""
          THEN /\ fsPc' = "error"
               /\ fsErr' = err
               /\ UNCHANGED fs
        ELSE /\ fsPc' = "input"
             /\ fs' = [fs EXCEPT !.filterFT = ConvolveFTFilterCopy(a.in, a.filter)]
             /\ UNCHANGED fsErr
  /\ UNCHANGED fsArgs

(* Prepare input image. *)
ConvolveFTInput(garbage) ==
  /\ fsPc = "input"
  /\ LET a == fsArgs
         inPadding == ConvolveFTInPadding(a.inRepresentation, a.filterRepresentation,
                                          a.outRepresentation, a.boundaryCondition)
     IN fs' = [fs EXCEPT
                 !.inPadding = inPadding,
                 !.inFT = IF inPadding THEN ConvolveFTInputSizes(a.in, a.filter, garbage)
                          ELSE a.in.sizes,
                 !.queried = IF inPadding THEN 0..(Dimensionality(a.in) - 1) ELSE {}]
  /\ fsPc' = "filter"
  /\ UNCHANGED <<fsArgs, fsErr>>

(* Prepare filter image. *)
ConvolveFTFilter ==
  /\ fsPc = "filter"
  /\ fs' = [fs EXCEPT
              !.padded = SizesLess(fs.filterFT, fs.inFT),
              !.filterFT = IF SizesLess(fs.filterFT, fs.inFT) THEN fs.inFT ELSE @]
  /\ fsPc' = "multiply"
  /\ UNCHANGED <<fsArgs, fsErr>>

(* MultiplySampleWise( inFT, filterFT, outFT ). *)
ConvolveFTMultiplySampleWise ==
  /\ fsPc = "multiply"
  /\ LET err == MultiplySampleWiseError(fs.inFT, fs.filterFT)
     IN IF err # ""
          THEN /\ fsPc' = "error"
               /\ fsErr' = err
               /\ fs' = [fs EXCEPT !.operands = <<fs.inFT, fs.filterFT>>]
        ELSE /\ fsPc' = "done"
             /\ fs' = [fs EXCEPT !.operands = <<fs.inFT, fs.filterFT>>,
                                 !.outFT = SingletonExpandedSizes(fs.inFT, fs.filterFT)]
             /\ UNCHANGED fsErr
  /\ UNCHANGED fsArgs

(* The calls the model makes. *)
ConvolveFTSizesCall(in, filter, inRepresentation, filterRepresentation, outRepresentation, boundaryCondition) ==
  [in |-> in, filter |-> filter, inRepresentation |-> inRepresentation,
   filterRepresentation |-> filterRepresentation, outRepresentation |-> outRepresentation,
   boundaryCondition |-> boundaryCondition]

ImageSizes ==
  {<<n>> : n \in 1..MaxLen} \cup {<<a, b>> : a \in 1..(MaxSide + 1), b \in 1..(MaxSide + 1)}
    \cup {<<4, 3>>}

FsCallEntered ==
  \E isz \in ImageSizes, ksz \in ImageSizes, f1 \in BOOLEAN,
     inRep \in {"spatial", "frequency"}, filterRep \in {"spatial", "frequency", "Fourier"},
     bc \in {<<>>, <<"periodic">>} :
    /\ ~f1 => (isz = <<MaxLen>> /\ ksz = <<1>>)
    /\ fsArgs = ConvolveFTSizesCall(ImageHeader(f1, isz, "SFLOAT"),
                                    ImageHeader(TRUE, ksz, "SFLOAT"),
                                    inRep, filterRep, "spatial", bc)

FsIdle ==
  /\ fsArgs = <<>>
  /\ fsPc = "idle"
  /\ fsErr = ""
  /\ fs = NoSizes

(***************************************************************************)
(* dip::IterativeConstrainedTikhonovMiller                                 *)
(* (src/src/deconvolution/ictm.cpp).  The samples are not followed: the    *)
(* outcome of the convergence test is an input of each iteration.          *)
(*                                                                         *)
(*   ictmArgs       the call: in, psf, maxIterations and options           *)
(*   ictmPc         "idle", "call" (entered), "otf" (arguments tested),    *)
(*                  "loop" (inside while( true )), "done", "error"         *)
(*   ictmErr        what it threw                                          *)
(*   ictm           its locals isOtf and simple                            *)
(*   maxIterations  the parameter of that name, which the loop counts down *)
(*   iterations     the number of times the loop body has run              *)
(***************************************************************************)
VARIABLES ictmArgs, ictmPc, ictmErr, ictm, maxIterations, iterations

ictmVars == <<ictmArgs, ictmPc, ictmErr, ictm, maxIterations, iterations>>

MaxIterations == 3

NoFlags == [isOtf |-> FALSE, simple |-> FALSE]

(* The loop over the options. *)
IctmOptions(options) ==
  [err |-> IF options \subseteq {"OTF", "simple"} THEN "" ELSE "INVALID_FLAG",
   isOtf |-> "OTF" \in options,
   simple |-> "simple" \in options]

(* --maxIterations on a dip::uint. *)
Decrement(n) == USub(n, 1)

(* The tests of the arguments and the options. *)
IterativeConstrainedTikhonovMillerCheck ==
  /\ ictmPc = "call"
  /\ LET err == RichardsonLucyCheckError(ictmArgs.in, ictmArgs.psf)
         opts == IctmOptions(ictmArgs.options)
     IN IF err # ""
          THEN /\ ictmPc' = "error"
               /\ ictmErr' = err
               /\ UNCHANGED ictm
        ELSE IF opts.err # ""
          THEN /\ ictmPc' = "error"
               /\ ictmErr' = opts.err
               /\ UNCHANGED ictm
        ELSE /\ ictmPc' = "otf"
             /\ ictm' = [isOtf |-> opts.isOtf, simple |-> opts.simple]
             /\ UNCHANGED ictmErr
  /\ UNCHANGED <<ictmArgs, maxIterations, iterations>>

(* H = GetOTF( psf, in.Sizes(), isOtf ), and the images the loop needs. *)
IterativeConstrainedTikhonovMillerGetOTF ==
  /\ ictmPc = "otf"
  /\ LET err == GetOTFError(ictmArgs.psf, ictmArgs.in.sizes, ictm.isOtf)
     IN /\ ictmPc' = IF err # "" THEN "error" ELSE "loop"
        /\ ictmErr' = err
  /\ UNCHANGED <<ictmArgs, ictm, maxIterations, iterations>>

(* One pass through the body of while( true ): the update of F and out, then
   `if( --maxIterations == 0 ) return;` and the test of the mean relative
   error, whose outcome is `converged`. *)
IterativeConstrainedTikhonovMillerIterate(converged) ==
  /\ ictmPc = "loop"
  /\ iterations <= MaxIterations
  /\ iterations' = iterations + 1
  /\ maxIterations' = Decrement(maxIterations)
  /\ ictmPc' = IF Decrement(maxIterations) = 0 \/ converged THEN "done" ELSE "loop"
  /\ UNCHANGED <<ictmArgs, ictmErr, ictm>>

IctmCallEntered ==
  \E f1 \in BOOLEAN, s1 \in BOOLEAN, r1 \in BOOLEAN, f2 \in BOOLEAN,
     psfSizes \in {<<MaxLen>>, <<MaxLen + 1>>},
     n \in 0..MaxIterations,
     options \in SUBSET {"OTF", "simple", "fast"} :
    ictmArgs = [in |-> DeconvolutionImage(f1, s1, r1, <<MaxLen>>),
                psf |-> DeconvolutionImage(f2, TRUE, TRUE, psfSizes),
                maxIterations |-> n, options |-> options]

IctmIdle ==
  /\ ictmArgs = <<>>
  /\ ictmPc = "idle"
  /\ ictmErr = ""
  /\ ictm = NoFlags
  /\ maxIterations = 0
  /\ iterations = 0

(***************************************************************************)
(* PyDIP's viewer module (src/pydip/src/viewer/viewer.cpp).                *)
(*                                                                         *)
(*   PyOS_InputHook  the interpreter's input hook: "nullptr", "drawHook"   *)
(*                   (the module's own) or "otherHook" (another party's)   *)
(*   windows     the number of open viewer windows                         *)
(*   pyPc        "idle" (the module is not loaded), "running" or "exited"  *)
(*               (the atexit handler has run)                              *)
(*   lastCall    the operation that acted last                             *)
(*   hookBefore  the input hook when that operation began                  *)
(*   viewer      the SliceViewer the last Show returned: the               *)
(*               dimensionality of its image and its options' dims_        *)
(*   svGot       what the `dims` getter returned to the caller; NoDims     *)
(*               once the caller has set something else                    *)
(*   svErr       what the last Show or `dims` setter threw                 *)
(***************************************************************************)
VARIABLES PyOS_InputHook, windows, pyPc, lastCall, hookBefore, viewer, svGot, svErr

viewerVars == <<PyOS_InputHook, windows, pyPc, lastCall, hookBefore, viewer, svGot, svErr>>

MaxWindows == 2
MaxDimensionality == 3

NoViewer == [dimensionality |-> 0, dims_ |-> <<>>]
NoDims == <<>>

(* if( PyOS_InputHook == nullptr ) PyOS_InputHook = &drawHook; *)
InstallHook(hook) == IF hook = "nullptr" THEN "drawHook" ELSE hook

ClearHookAlways(hook) == "nullptr"

(* if( PyOS_InputHook == &drawHook ) PyOS_InputHook = nullptr; *)
ClearHook(hook) == IF hook = "drawHook" THEN "nullptr" ELSE hook

(* The dims Show gives the viewer when the dimensions are not reversed. *)
ShowDims(nDims) ==
  IF nDims = 0 THEN <<-1, -1, -1, -1>>
  ELSE IF nDims = 1 THEN <<0, -1, -1, -1>>
  ELSE IF nDims = 2 THEN <<1, 0, -1, -1>>
  ELSE <<2, 1, 0, 0>>

(* The dims dip::viewer::Show itself gives the viewer (ViewingOptions). *)
DefaultDims(nDims) ==
  IF nDims = 0 THEN <<-1, -1, -1, -1>>
  ELSE IF nDims = 1 THEN <<0, -1, -1, -1>>
  ELSE IF nDims = 2 THEN <<0, 1, -1, -1>>
  ELSE <<0, 1, 2, 2>>

(* dip::viewer::Show rejects an image that is not forged. *)
ViewerShowError(image) == IF image.forged THEN "" ELSE "IMAGE_NOT_FORGED"

(* Show: the hook is installed before the window is made. *)
Show(image, reverse) ==
  /\ pyPc = "running"
  /\ ViewerShowError(image) = "" => windows < MaxWindows
  /\ hookBefore' = PyOS_InputHook
  /\ PyOS_InputHook' = InstallHook(PyOS_InputHook)
  /\ lastCall' = "Show"
  /\ svErr' = ViewerShowError(image)
  /\ IF ViewerShowError(image) = ""
     THEN /\ windows' = windows + 1
          /\ viewer' = [dimensionality |-> image.dimensionality,
                        dims_ |-> IF ~reverse THEN ShowDims(image.dimensionality)
                                  ELSE DefaultDims(image.dimensionality)]
          /\ svGot' = NoDims
     ELSE UNCHANGED <<windows, viewer, svGot>>
  /\ UNCHANGED pyPc

(* Draw handles the pending events of the windows; the user may have closed some. *)
Draw(closed) ==
  /\ pyPc = "running"
  /\ closed <= windows
  /\ windows' = windows - closed
  /\ hookBefore' = PyOS_InputHook
  /\ lastCall' = "Draw"
  /\ UNCHANGED <<PyOS_InputHook, pyPc, viewer, svGot, svErr>>

(* The interpreter calls its input hook while it waits for input. *)
drawHook(closed) ==
  /\ pyPc = "running"
  /\ PyOS_InputHook = "drawHook"
  /\ closed <= windows
  /\ windows' = windows - closed
  /\ hookBefore' = PyOS_InputHook
  /\ lastCall' = "drawHook"
  /\ UNCHANGED <<PyOS_InputHook, pyPc, viewer, svGot, svErr>>

(* Spin returns when every window has been closed. *)
Spin ==
  /\ pyPc = "running"
  /\ windows' = 0
  /\ hookBefore' = PyOS_InputHook
  /\ PyOS_InputHook' = ClearHook(PyOS_InputHook)
  /\ lastCall' = "Spin"
  /\ UNCHANGED <<pyPc, viewer, svGot, svErr>>

CloseAll ==
  /\ pyPc = "running"
  /\ windows' = 0
  /\ hookBefore' = PyOS_InputHook
  /\ PyOS_InputHook' = ClearHook(PyOS_InputHook)
  /\ lastCall' = "CloseAll"
  /\ UNCHANGED <<pyPc, viewer, svGot, svErr>>

(* The handler the module registers with atexit. *)
AtExit ==
  /\ pyPc = "running"
  /\ windows' = 0
  /\ hookBefore' = PyOS_InputHook
  /\ PyOS_InputHook' = ClearHook(PyOS_InputHook)
  /\ lastCall' = "exit"
  /\ pyPc' = "exited"
  /\ UNCHANGED <<viewer, svGot, svErr>>

(* Another party installs its input hook, or removes it. *)
OtherParty(install) ==
  /\ pyPc = "running"
  /\ IF install THEN PyOS_InputHook # "otherHook" ELSE PyOS_InputHook = "otherHook"
  /\ hookBefore' = PyOS_InputHook
  /\ PyOS_InputHook' = IF install THEN "otherHook" ELSE "nullptr"
  /\ lastCall' = "other party"
  /\ UNCHANGED <<windows, pyPc, viewer, svGot, svErr>>

(* The `dims` property of SliceViewer: the getter. *)
GetDims ==
  /\ pyPc = "running"
  /\ viewer # NoViewer
  /\ svGot' = viewer.dims_
  /\ hookBefore' = PyOS_InputHook
  /\ lastCall' = "dims.get"
  /\ UNCHANGED <<PyOS_InputHook, windows, pyPc, viewer, svErr>>

(* The setter: what it throws, "" if nothing. *)
SetDimsError(dims, nDims) ==
  IF Len(dims) > 4 THEN "ARRAY_PARAMETER_WRONG_LENGTH"
  ELSE IF \E i \in 1..Len(dims) : dims[i] < -1 \/ dims[i] >= nDims THEN "INDEX_OUT_OF_RANGE"
  ELSE IF \E idx \in 1..Len(dims) : \E idx2 \in 1..(idx - 1) :
            dims[idx2] # -1 /\ dims[idx2] = dims[idx]
       THEN "INDEX_OUT_OF_RANGE"
  ELSE ""

(* newdims: the given entries, -1 for the others; three entries give the fourth. *)
NewDims(dims) ==
  [i \in 1..4 |-> IF i <= Len(dims) THEN dims[i]
                  ELSE IF i = 4 /\ Len(dims) = 3 THEN dims[3]
                  ELSE -1]

SetDims(dims) ==
  /\ pyPc = "running"
  /\ viewer # NoViewer
  /\ svErr' = SetDimsError(dims, viewer.dimensionality)
  /\ viewer' = IF SetDimsError(dims, viewer.dimensionality) = ""
               THEN [viewer EXCEPT !.dims_ = NewDims(dims)]
               ELSE viewer
  /\ svGot' = IF dims = svGot THEN svGot ELSE NoDims
  /\ hookBefore' = PyOS_InputHook
  /\ lastCall' = "dims.set"
  /\ UNCHANGED <<PyOS_InputHook, windows, pyPc>>

(* The images Show is given, and the values the caller assigns to `dims`. *)
ViewerImages ==
  {[forged |-> FALSE, dimensionality |-> 0]}
    \cup {[forged |-> TRUE, dimensionality |-> n] : n \in 0..MaxDimensionality}

DimsEntries == (0 - 1)..(MaxDimensionality - 1)

(* Up to four entries that are -1 or a dimension of the largest image; an
   entry below -1, one past every dimension, and five entries. *)
DimsGiven ==
  UNION {[1..n -> DimsEntries] : n \in 0..4}
    \cup {<<0 - 2>>, <<MaxDimensionality>>, <<0, -1, -1, -1, -1>>}

ViewerIdle ==
  /\ PyOS_InputHook = "nullptr"
  /\ windows = 0
  /\ pyPc = "idle"
  /\ lastCall = ""
  /\ hookBefore = "nullptr"
  /\ viewer = NoViewer
  /\ svGot = NoDims
  /\ svErr = ""

(***************************************************************************)
(* The parts of the model outside convolution.cpp.                         *)
(***************************************************************************)
laterVars == <<fsVars, ictmVars, viewerVars>>

LaterIdle ==
  /\ FsIdle
  /\ IctmIdle
  /\ ViewerIdle

moreVars == <<scanVars, mulVars, lfVars, rlVars, laterVars>>

ScanIdle ==
  /\ scanLhs = NoStridedImage
  /\ scanRhs = 0
  /\ scanOut = NoStridedImage
  /\ scanPc = "idle"

MoreIdle ==
  /\ ScanIdle
  /\ MulIdle
  /\ LfIdle
  /\ RlIdle
  /\ LaterIdle

(***************************************************************************)
(* Specifications.  Each follows the calls of one function; the variables  *)
(* of the others stay idle.                                                *)
(***************************************************************************)
SepIdle ==
  /\ sepArgs = <<>>
  /\ sepPc = "idle"
  /\ sepErr = ""
  /\ filterData = <<>>
  /\ border = <<>>
  /\ process = <<>>
  /\ dtype = "SFLOAT"
  /\ pass = NoPass
  /\ out = NoImage

ConvIdle ==
  /\ convArgs = <<>>
  /\ convPc = "idle"
  /\ convErr = ""
  /\ tryMethods = NoMethods
  /\ calls = <<>>
  /\ convOut = NoOutput

FtIdle ==
  /\ ftArgs = <<>>
  /\ ftPc = "idle"
  /\ ftErr = ""
  /\ ft = NoLocals
  /\ ftOut = NoImage
  /\ ftMem = Segments(RawOutput)

SepInit ==
  /\ SeparableCallEntered
  /\ sepPc = "call"
  /\ sepErr = ""
  /\ filterData = <<>>
  /\ border = <<>>
  /\ process = <<>>
  /\ dtype = "SFLOAT"
  /\ pass = NoPass
  /\ out = NoImage
  /\ ConvIdle
  /\ FtIdle
  /\ MoreIdle

SepNext ==
  \/ SeparableConvolutionSetup /\ UNCHANGED <<convVars, ftVars, moreVars>>
  \/ /\ \E l \in 0..(MaxLen + MaxSide), garbage \in Garbage : SeparableFilterLine(l, garbage)
     /\ UNCHANGED <<convVars, ftVars, moreVars>>

ConvInit ==
  /\ ConvolutionCallEntered
  /\ convPc = "call"
  /\ convErr = ""
  /\ tryMethods = NoMethods
  /\ calls = <<>>
  /\ convOut = NoOutput
  /\ SepIdle
  /\ FtIdle
  /\ MoreIdle

ConvNext ==
  \/ ConvolutionBegin /\ UNCHANGED <<sepVars, ftVars, moreVars>>
  \/ ConvolutionTrySeparable /\ UNCHANGED <<sepVars, ftVars, moreVars>>
  \/ ConvolutionTryFourier /\ UNCHANGED <<sepVars, ftVars, moreVars>>
  \/ ConvolutionDirect /\ UNCHANGED <<sepVars, ftVars, moreVars>>

FtInit ==
  /\ FtCallEntered \/ BinaryKernelCallEntered
  /\ ftPc = IF ftArgs.fn = "Convolution" THEN "call" ELSE "strategy"
  /\ ftErr = ""
  /\ ft = IF ftArgs.fn = "Convolution" THEN NoLocals
          ELSE [NoLocals EXCEPT !.call = CallOf(ftArgs)]
  /\ ftOut = NoImage
  /\ FtOutputEntered
  /\ SepIdle
  /\ ConvIdle
  /\ MoreIdle

FtNext ==
  \/ ConvolutionDispatch /\ UNCHANGED <<sepVars, convVars, moreVars>>
  \/ SeparableConvolutionRun /\ UNCHANGED <<sepVars, convVars, moreVars>>
  \/ GeneralConvolutionRun /\ UNCHANGED <<sepVars, convVars, moreVars>>
  \/ ConvolveFTPrepareInput /\ UNCHANGED <<sepVars, convVars, moreVars>>
  \/ ConvolveFTPrepareFilter /\ UNCHANGED <<sepVars, convVars, moreVars>>
  \/ ConvolveFTMultiply /\ UNCHANGED <<sepVars, convVars, moreVars>>
  \/ ConvolveFTOutput /\ UNCHANGED <<sepVars, convVars, moreVars>>

ConvolutionIdle ==
  /\ SepIdle
  /\ ConvIdle
  /\ FtIdle

convolutionVars == <<sepVars, convVars, ftVars>>

ScanInit ==
  /\ ScanImageForged
  /\ scanRhs = 0
  /\ scanOut = NoStridedImage
  /\ scanPc = "forged"
  /\ ConvolutionIdle
  /\ MulIdle
  /\ LfIdle
  /\ RlIdle
  /\ LaterIdle

ScanNext ==
  \/ ScanExpand /\ UNCHANGED <<convolutionVars, mulVars, lfVars, rlVars, laterVars>>
  \/ ScanAdd /\ UNCHANGED <<convolutionVars, mulVars, lfVars, rlVars, laterVars>>

MulInit ==
  /\ MulOperandsForged
  /\ mulOut = NoTensorImage
  /\ mulErr = ""
  /\ mulPc = "forged"
  /\ mulOutDataType = ""
  /\ ConvolutionIdle
  /\ ScanIdle
  /\ LfIdle
  /\ RlIdle
  /\ LaterIdle

MulNext ==
  \/ MulViewLhs /\ UNCHANGED <<convolutionVars, scanVars, lfVars, rlVars, laterVars>>
  \/ MulViewRhs /\ UNCHANGED <<convolutionVars, scanVars, lfVars, rlVars, laterVars>>
  \/ MultiplyRun /\ UNCHANGED <<convolutionVars, scanVars, lfVars, rlVars, laterVars>>

LfInit ==
  /\ LfInvoked
  /\ lfPc = "setup"
  /\ lfOffsets = <<>>
  /\ lfAssign = <<>>
  /\ lfThreads = [t \in Threads |-> NoThread]
  /\ lfDone = {}
  /\ lfWrites = [p \in 1..Product(lf.sizes) |-> 0]
  /\ lfSets = 0
  /\ ConvolutionIdle
  /\ ScanIdle
  /\ MulIdle
  /\ RlIdle
  /\ LaterIdle

LfNext ==
  \/ LfSetNumberOfThreads /\ UNCHANGED <<convolutionVars, scanVars, mulVars, rlVars, laterVars>>
  \/ /\ \E t \in Threads, l \in 0..(MaxSide + 1) : LfStartLine(t, l)
     /\ UNCHANGED <<convolutionVars, scanVars, mulVars, rlVars, laterVars>>
  \/ /\ \E t \in Threads : LfFilterSample(t)
     /\ UNCHANGED <<convolutionVars, scanVars, mulVars, rlVars, laterVars>>
  \/ /\ \E t \in Threads : LfEndLine(t)
     /\ UNCHANGED <<convolutionVars, scanVars, mulVars, rlVars, laterVars>>
  \/ LfEndPass /\ UNCHANGED <<convolutionVars, scanVars, mulVars, rlVars, laterVars>>

RlInit ==
  /\ RlCallEntered
  /\ rlPc = "call"
  /\ rlErr = ""
  /\ rlIsOtf = FALSE
  /\ rlWritten = FALSE
  /\ ConvolutionIdle
  /\ ScanIdle
  /\ MulIdle
  /\ LfIdle
  /\ LaterIdle

RlNext ==
  \/ RichardsonLucyCheck /\ UNCHANGED <<convolutionVars, scanVars, mulVars, lfVars, laterVars>>
  \/ RichardsonLucyOptions /\ UNCHANGED <<convolutionVars, scanVars, mulVars, lfVars, laterVars>>
  \/ RichardsonLucyGetOTF /\ UNCHANGED <<convolutionVars, scanVars, mulVars, lfVars, laterVars>>
  \/ RichardsonLucyTransform /\ UNCHANGED <<convolutionVars, scanVars, mulVars, lfVars, laterVars>>
  \/ RichardsonLucyIterate /\ UNCHANGED <<convolutionVars, scanVars, mulVars, lfVars, laterVars>>

earlierVars == <<scanVars, mulVars, lfVars, rlVars>>

EarlierIdle ==
  /\ ScanIdle
  /\ MulIdle
  /\ LfIdle
  /\ RlIdle

FsInit ==
  /\ FsCallEntered
  /\ fsPc = "call"
  /\ fsErr = ""
  /\ fs = NoSizes
  /\ ConvolutionIdle
  /\ EarlierIdle
  /\ IctmIdle
  /\ ViewerIdle

FsNext ==
  \/ ConvolveFTTestInputs /\ UNCHANGED <<convolutionVars, earlierVars, ictmVars, viewerVars>>
  \/ /\ \E garbage \in GarbageSizes : ConvolveFTInput(garbage)
     /\ UNCHANGED <<convolutionVars, earlierVars, ictmVars, viewerVars>>
  \/ ConvolveFTFilter /\ UNCHANGED <<convolutionVars, earlierVars, ictmVars, viewerVars>>
  \/ ConvolveFTMultiplySampleWise /\ UNCHANGED <<convolutionVars, earlierVars, ictmVars, viewerVars>>

IctmInit ==
  /\ IctmCallEntered
  /\ ictmPc = "call"
  /\ ictmErr = ""
  /\ ictm = NoFlags
  /\ maxIterations = ictmArgs.maxIterations
  /\ iterations = 0
  /\ ConvolutionIdle
  /\ EarlierIdle
  /\ FsIdle
  /\ ViewerIdle

IctmNext ==
  \/ IterativeConstrainedTikhonovMillerCheck /\ UNCHANGED <<convolutionVars, earlierVars, fsVars, viewerVars>>
  \/ IterativeConstrainedTikhonovMillerGetOTF /\ UNCHANGED <<convolutionVars, earlierVars, fsVars, viewerVars>>
  \/ /\ \E converged \in BOOLEAN : IterativeConstrainedTikhonovMillerIterate(converged)
     /\ UNCHANGED <<convolutionVars, earlierVars, fsVars, viewerVars>>

(* The module has been imported; another party may have its hook installed. *)
ViewerImported ==
  /\ PyOS_InputHook \in {"nullptr", "otherHook"}
  /\ windows = 0
  /\ pyPc = "running"
  /\ lastCall = "import"
  /\ hookBefore = PyOS_InputHook
  /\ viewer = NoViewer
  /\ svGot = NoDims
  /\ svErr = ""

ViewerInit ==
  /\ ViewerImported
  /\ ConvolutionIdle
  /\ EarlierIdle
  /\ FsIdle
  /\ IctmIdle

HookNext ==
  \/ /\ \E image \in ViewerImages, reverse \in BOOLEAN : Show(image, reverse)
     /\ UNCHANGED <<convolutionVars, earlierVars, fsVars, ictmVars>>
  \/ /\ \E closed \in 0..MaxWindows : Draw(closed)
     /\ UNCHANGED <<convolutionVars, earlierVars, fsVars, ictmVars>>
  \/ /\ \E closed \in 0..MaxWindows : drawHook(closed)
     /\ UNCHANGED <<convolutionVars, earlierVars, fsVars, ictmVars>>
  \/ Spin /\ UNCHANGED <<convolutionVars, earlierVars, fsVars, ictmVars>>
  \/ CloseAll /\ UNCHANGED <<convolutionVars, earlierVars, fsVars, ictmVars>>
  \/ AtExit /\ UNCHANGED <<convolutionVars, earlierVars, fsVars, ictmVars>>
  \/ /\ \E install \in BOOLEAN : OtherParty(install)
     /\ UNCHANGED <<convolutionVars, earlierVars, fsVars, ictmVars>>

DimsNext ==
  \/ /\ \E image \in ViewerImages, reverse \in BOOLEAN : Show(image, reverse)
     /\ UNCHANGED <<convolutionVars, earlierVars, fsVars, ictmVars>>
  \/ GetDims /\ UNCHANGED <<convolutionVars, earlierVars, fsVars, ictmVars>>
  \/ /\ \E dims \in DimsGiven \cup {svGot} : SetDims(dims)
     /\ UNCHANGED <<convolutionVars, earlierVars, fsVars, ictmVars>>

vars == <<sepVars, convVars, ftVars, moreVars>>
Init == SepInit \/ ConvInit \/ FtInit \/ ScanInit \/ MulInit \/ LfInit \/ RlInit \/ FsInit \/ IctmInit \/ ViewerInit
Next == SepNext \/ ConvNext \/ FtNext \/ ScanNext \/ MulNext \/ LfNext \/ RlNext \/ FsNext \/ IctmNext \/ HookNext \/ DimsNext

SpecSeparable == SepInit /\ [][SepNext]_vars
SpecConvolution == ConvInit /\ [][ConvNext]_vars
SpecSamples == FtInit /\ [][FtNext]_vars
SpecScan == ScanInit /\ [][ScanNext]_vars
SpecMultiply == MulInit /\ [][MulNext]_vars
SpecLineFilter == LfInit /\ [][LfNext]_vars
SpecDeconvolution == RlInit /\ [][RlNext]_vars
SpecSizes == FsInit /\ [][FsNext]_vars
SpecIctm == IctmInit /\ [][IctmNext]_vars
SpecHook == ViewerInit /\ [][HookNext]_vars
SpecDims == ViewerInit /\ [][DimsNext]_vars
Spec == Init /\ [][Next]_vars


(***************************************************************************)
(* Properties of SeparableConvolution.                                     *)
(***************************************************************************)
Reverse(t) == [i \in 1..Len(t) |-> t[Len(t) + 1 - i]]
Negate(t) == [i \in 1..Len(t) |-> 0 - t[i]]
Front(t) == SubSeq(t, 1, Len(t) - 1)

(* The full tap list of the filter whose non-redundant half is `half`. *)
ExpandSymmetric(half, symmetry) ==
  CASE symmetry = "even" -> half \o Reverse(Front(half))
    [] symmetry = "odd" -> half \o Negate(Reverse(Front(half)))
    [] symmetry = "d-even" -> half \o Reverse(half)
    [] symmetry = "d-odd" -> half \o Negate(Reverse(half))

GeneralOf(f) == OneDimensionalFilter(ExpandSymmetric(f.filter, f.symmetry), 0 - 1, "general", FALSE)

SymmetricCallDone(tags) ==
  /\ sepPc = "done"
  /\ Len(sepArgs.filterArray) = 1
  /\ sepArgs.filterArray[1].symmetry \in tags
  /\ sepArgs.filterArray[1].origin = 0 - 1
  /\ ~sepArgs.filterArray[1].isComplex
  /\ sepArgs.filterArray[1].filter # <<>>

SameAsGeneral ==
  out.data = SeparableConvolutionResult(
               [sepArgs EXCEPT !.filterArray = <<GeneralOf(sepArgs.filterArray[1])>>],
               CZero).data

(* C1: a filter given as its non-redundant half with the tag "even", "odd",
   "d-even" or "d-odd" and the default origin gives, at every output sample,
   the value the full tap list gives with the tag "general" and the default
   origin, for every line and boundary condition. *)
C1_SymmetricSameAsGeneral ==
  SymmetricCallDone({"even", "odd", "d-even", "d-odd"}) => SameAsGeneral

(* The part of C1 about the odd-sized filters, "even" and "odd". *)
OddSizedSymmetricSameAsGeneral ==
  SymmetricCallDone({"even", "odd"}) => SameAsGeneral

(* C8: the border SeparableConvolution passes to the framework is, for every
   axis, max(origin, length - origin - 1) without wrap-around: 0 for a
   zero-length filter, less than length otherwise. *)
C8_BorderWithoutWrap ==
  sepPc \in {"separable", "done"} =>
    \A ii \in 1..Dimensionality(sepArgs.in) :
      LET f == filterData[ProcDim(filterData, ii)]
      IN /\ f.size = 0 => border[ii] = 0
         /\ f.size >= 1 => /\ border[ii] = Max(f.origin, f.size - f.origin - 1)
                           /\ border[ii] < f.size

(* The number of taps the caller's filter stores. *)
StoredTaps(f) == IF f.isComplex THEN Len(f.filter) \div 2 ELSE Len(f.filter)

(* The caller's filter is zero-length, or a single tap equal to 1: one stored
   tap that the symmetry tag does not double. *)
IsEmptyOrIdentity(f) ==
  \/ StoredTaps(f) = 0
  \/ /\ StoredTaps(f) = 1
     /\ f.symmetry \in {"", "general", "even", "odd", "conj"}
     /\ f.filter = IF f.isComplex THEN <<1, 0>> ELSE <<1>>

AxisFilter(ii) == sepArgs.filterArray[ProcDim(sepArgs.filterArray, ii)]

(* C9: a zero-length filter, or a single tap equal to 1, marks its axis as not
   to be processed; when every axis has such a filter no line is filtered and
   the output samples are the input samples. *)
C9_MeaninglessFilterIsNoOp ==
  sepPc \in {"separable", "done"} =>
    /\ \A ii \in 1..Dimensionality(sepArgs.in) :
         IsEmptyOrIdentity(AxisFilter(ii)) => ~process[ii]
    /\ (\A ii \in 1..Dimensionality(sepArgs.in) : IsEmptyOrIdentity(AxisFilter(ii))) =>
         /\ sepPc = "done"
         /\ pass.calls = 0
         /\ out.forged
         /\ out.sizes = sepArgs.in.sizes
         /\ out.data = sepArgs.in.data

C9_Witness ==
  /\ sepPc = "done"
  /\ Dimensionality(sepArgs.in) = 2
  /\ Len(sepArgs.filterArray) = 2
  /\ StoredTaps(sepArgs.filterArray[1]) = 1 /\ IsEmptyOrIdentity(sepArgs.filterArray[1])
  /\ StoredTaps(sepArgs.filterArray[2]) = 0
  /\ sepArgs.in.sizes = <<2, 2>>
  /\ \E p \in 1..4 : sepArgs.in.data[p] = COne
  /\ \E p \in 1..4 : sepArgs.in.data[p] = CZero
  /\ sepArgs.process = <<TRUE, FALSE>>
  /\ out.data = sepArgs.in.data

(* C10: the internal filter of a caller's filter with n >= 1 stored taps keeps
   n taps, and its length is n for "general", 2n - 1 for "even", "odd" and
   "conj", 2n for "d-even", "d-odd" and "d-conj". *)
C10_InternalFilterLength ==
  sepPc \in {"separable", "done"} =>
    \A k \in 1..Len(sepArgs.filterArray) :
      LET f == sepArgs.filterArray[k]
          n == StoredTaps(f)
      IN n >= 1 =>
           /\ filterData[k].dataSize = n
           /\ Len(filterData[k].filter) = n
           /\ f.symmetry \in {"", "general"} => filterData[k].size = n
           /\ f.symmetry \in {"even", "odd", "conj"} => filterData[k].size = 2 * n - 1
           /\ f.symmetry \in {"d-even", "d-odd", "d-conj"} => filterData[k].size = 2 * n

C10_Witness ==
  /\ sepPc = "done"
  /\ sepArgs.filterArray[1].isComplex
  /\ sepArgs.filterArray[1].symmetry = "d-conj"
  /\ StoredTaps(sepArgs.filterArray[1]) = 2
  /\ filterData[1].size = 4
  /\ filterData[1].dataSize = 2

(* The call's arguments are ones SeparableConvolution must refuse. *)
SepInvalidArguments(a) ==
  \/ ~a.in.forged
  \/ Dimensionality(a.in) = 0
  \/ Len(a.filterArray) \notin {1, Dimensionality(a.in)}
  \/ a.process # <<>> /\ Len(a.process) # Dimensionality(a.in)

(* C11: a SeparableConvolution call whose input is not forged or has zero
   dimensions, whose filter array has a length that is neither 1 nor the
   image's dimensionality, or whose non-empty process array has a length other
   than the dimensionality, throws: no line filter has run and the output
   image is not written. *)
C11_InvalidArgumentsThrow ==
  (sepPc # "call" /\ SepInvalidArguments(sepArgs)) =>
    /\ sepPc = "error"
    /\ sepErr # ""
    /\ pass = NoPass
    /\ out = NoImage

C11_Witness ==
  /\ sepPc = "error"
  /\ sepErr = "ARRAY_PARAMETER_WRONG_LENGTH"
  /\ sepArgs.in.forged
  /\ Dimensionality(sepArgs.in) = 1
  /\ Len(sepArgs.filterArray) = 1
  /\ Len(sepArgs.process) = 2
  /\ out = NoImage


(***************************************************************************)
(* Properties of Convolution.                                              *)
(***************************************************************************)
IsStrategy(c) == c.fn \in Strategies
StrategyCalls == SelectSeq(calls, IsStrategy)
StrategiesInvoked == [k \in 1..Len(StrategyCalls) |-> StrategyCalls[k].fn]
SeparateFilterAttempted == \E k \in 1..Len(calls) : calls[k].fn = "SeparateFilter"
KnownMethods == {"direct", "separable", "Fourier", "best"}
ConvolutionEnded == convPc \in {"done", "error"}
ConvolutionEntered == convPc \in {"trySeparable", "tryFourier", "direct", "done", "error"}
InputsForged == convArgs.in.forged /\ convArgs.filter_c.forged
KernelFitsDimensionality ==
  Dimensionality(convArgs.filter_c) <= Dimensionality(convArgs.in)

(* C4: a Convolution call with method "separable" whose kernel does not
   separate into 1-D filters throws "Filter kernel not separable."; it calls
   neither ConvolveFT nor GeneralConvolution (nor any implementation) and
   leaves the output unwritten. *)
C4_NotSeparableIsAnError ==
  (/\ ConvolutionEntered
   /\ ConvolutionCheckError(convArgs) = ""
   /\ convArgs.method = "separable"
   /\ ~convArgs.separable) =>
    /\ convPc \in {"trySeparable", "error"}
    /\ convPc = "error" => /\ convErr = "Filter kernel not separable."
                           /\ SeparateFilterAttempted
    /\ StrategiesInvoked = <<>>
    /\ convOut = NoOutput

C4_Witness ==
  /\ convPc = "error"
  /\ convErr = "Filter kernel not separable."
  /\ convArgs.method = "separable"
  /\ convArgs.filter_c.sizes = <<9, 8>>
  /\ convArgs.in.sizes = <<16, 16>>
  /\ convArgs.boundaryCondition = <<"periodic">>
  /\ SeparateFilterAttempted
  /\ StrategiesInvoked = <<>>

(* C5 as stated: for forged images and a method of {"direct", "separable",
   "Fourier", "best"} a call that returns has called exactly one of the three
   implementations, once; "direct" always calls GeneralConvolution and
   "Fourier" always ConvolveFT; any other method string throws the
   invalid-flag error before an implementation is called. *)
C5_ExactlyOneStrategy ==
  (ConvolutionEnded /\ InputsForged) =>
    /\ (convArgs.method \in KnownMethods /\ convPc = "done") => Len(StrategiesInvoked) = 1
    /\ convArgs.method = "direct" => StrategiesInvoked = <<"GeneralConvolution">>
    /\ convArgs.method = "Fourier" => StrategiesInvoked = <<"ConvolveFT">>
    /\ convArgs.method \notin KnownMethods =>
         /\ convPc = "error"
         /\ convErr = "INVALID_FLAG"
         /\ StrategiesInvoked = <<>>

(* C5 amended: as C5, with "direct", "Fourier" and the invalid-flag error
   for the calls whose kernel has no more dimensions than the input; a
   kernel of more dimensions throws the dimensionality error first, whatever
   the method, and no implementation is called. *)
C5_ExactlyOneStrategyWhenKernelFits ==
  (ConvolutionEnded /\ InputsForged) =>
    /\ (convArgs.method \in KnownMethods /\ convPc = "done") => Len(StrategiesInvoked) = 1
    /\ KernelFitsDimensionality =>
         /\ convArgs.method = "direct" => StrategiesInvoked = <<"GeneralConvolution">>
         /\ convArgs.method = "Fourier" => StrategiesInvoked = <<"ConvolveFT">>
         /\ convArgs.method \notin KnownMethods =>
              /\ convPc = "error"
              /\ convErr = "INVALID_FLAG"
              /\ StrategiesInvoked = <<>>
    /\ ~KernelFitsDimensionality =>
         /\ convPc = "error"
         /\ convErr = "DIMENSIONALITIES_DONT_MATCH"
         /\ StrategiesInvoked = <<>>

C5_Witness ==
  /\ convPc = "error"
  /\ InputsForged
  /\ KernelFitsDimensionality
  /\ convArgs.method = "fourier"
  /\ convErr = "INVALID_FLAG"
  /\ calls = <<>>
  /\ convArgs.in.sizes = <<16, 16>>
  /\ convArgs.filter_c.sizes = <<3, 3>>

(* The estimates of method "best" for the call in progress. *)
CallTimeFourier ==
  TimeFourier(Product(AddSizes(convArgs.in.sizes, ConvolutionFilter(convArgs).sizes)))
CallTimeSeparable ==
  TimeSeparable(Product(convArgs.in.sizes), SumOf(ConvolutionFilter(convArgs).sizes))
CallTimeDirect ==
  TimeDirect(Product(convArgs.in.sizes), Product(ConvolutionFilter(convArgs).sizes))
BestCallEnded ==
  /\ ConvolutionEnded
  /\ ConvolutionCheckError(convArgs) = ""
  /\ convArgs.method = "best"

(* C6 as stated: under "best" the decomposition of the kernel is attempted;
   a kernel that decomposes gets the cheaper of SeparableConvolution and
   ConvolveFT, one that does not gets GeneralConvolution when the direct
   estimate is below the Fourier estimate and ConvolveFT otherwise. *)
C6_BestMethod ==
  BestCallEnded =>
    /\ SeparateFilterAttempted
    /\ convArgs.separable =>
         StrategiesInvoked = IF BigLess(CallTimeSeparable, CallTimeFourier)
                               THEN <<"SeparableConvolution">> ELSE <<"ConvolveFT">>
    /\ ~convArgs.separable =>
         StrategiesInvoked = IF BigLess(CallTimeDirect, CallTimeFourier)
                               THEN <<"GeneralConvolution">> ELSE <<"ConvolveFT">>

(* C6 amended: under "best" the decomposition is attempted exactly when the
   separable estimate is below the Fourier estimate; when it is attempted and
   the kernel decomposes SeparableConvolution is used; otherwise ConvolveFT
   is used when the Fourier estimate is below the direct estimate and
   GeneralConvolution when it is not.  A kernel that decomposes gets the
   cheaper of SeparableConvolution and ConvolveFT in either case. *)
C6_BestMethodAttemptsWhenCheaper ==
  BestCallEnded =>
    /\ SeparateFilterAttempted <=> BigLess(CallTimeSeparable, CallTimeFourier)
    /\ (SeparateFilterAttempted /\ convArgs.separable) =>
         StrategiesInvoked = <<"SeparableConvolution">>
    /\ ~(SeparateFilterAttempted /\ convArgs.separable) =>
         StrategiesInvoked = IF BigLess(CallTimeFourier, CallTimeDirect)
                               THEN <<"ConvolveFT">> ELSE <<"GeneralConvolution">>
    /\ convArgs.separable =>
         StrategiesInvoked = IF BigLess(CallTimeSeparable, CallTimeFourier)
                               THEN <<"SeparableConvolution">> ELSE <<"ConvolveFT">>

C6_Witness ==
  /\ convPc = "done"
  /\ convArgs.method = "best"
  /\ convArgs.separable
  /\ convArgs.in.sizes = <<200>>
  /\ convArgs.filter_c.sizes = <<190>>
  /\ ~SeparateFilterAttempted
  /\ StrategiesInvoked = <<"ConvolveFT">>

(* The ConvolveFT calls of the Convolution call in progress. *)
IsConvolveFT(c) == c.fn = "ConvolveFT"
ConvolveFTCalls == SelectSeq(calls, IsConvolveFT)

(* C7 as stated: on the Fourier path the input is padded only when the caller
   gave a boundary condition; with an empty array there is no padding. *)
C7_PadsOnlyWithBoundaryCondition ==
  ConvolutionEntered =>
    \A k \in 1..Len(ConvolveFTCalls) :
      ConvolveFTCalls[k].inPadding <=> (convArgs.boundaryCondition # <<>>)

(* C7 amended: on the Fourier path the input is always padded: ConvolveFT
   gets the caller's boundary condition array, or the array of one empty
   string (the default boundary condition) when the caller's is empty. *)
C7_FourierPathAlwaysPads ==
  ConvolutionEntered =>
    \A k \in 1..Len(ConvolveFTCalls) :
      /\ ConvolveFTCalls[k].inPadding
      /\ ConvolveFTCalls[k].boundaryCondition # <<>>
      /\ convArgs.boundaryCondition # <<>> =>
           ConvolveFTCalls[k].boundaryCondition = convArgs.boundaryCondition
      /\ convArgs.boundaryCondition = <<>> =>
           ConvolveFTCalls[k].boundaryCondition = <<"">>

C7_Witness ==
  /\ convPc = "done"
  /\ convArgs.method = "Fourier"
  /\ convArgs.boundaryCondition = <<>>
  /\ Len(ConvolveFTCalls) = 1
  /\ ConvolveFTCalls[1].inPadding
  /\ convOut.writtenBy = "ConvolveFT"


(***************************************************************************)
(* Properties of the samples.                                              *)
(***************************************************************************)
AllSpatial ==
  /\ ftArgs.inRepresentation = "spatial"
  /\ ftArgs.filterRepresentation = "spatial"
  /\ ftArgs.outRepresentation = "spatial"

DirectResult ==
  GeneralConvolutionResult(ftArgs.in, ftArgs.filter_c, ftArgs.boundaryCondition)

(* C2: Convolution with method "separable" and Convolution with method
   "Fourier" give, at every sample, the value GeneralConvolution gives for
   the same image, (separable) kernel and boundary condition. *)
C2_MethodsAgree ==
  (/\ ftPc = "done"
   /\ ftArgs.fn = "Convolution"
   /\ ftArgs.method \in {"separable", "Fourier"}
   /\ DirectResult.err = "") =>
    ftOut.data = DirectResult.data

(* The part of C2 about method "separable". *)
SeparableMethodAgrees ==
  (/\ ftPc = "done"
   /\ ftArgs.fn = "Convolution"
   /\ ftArgs.method = "separable"
   /\ DirectResult.err = "") =>
    ftOut.data = DirectResult.data

(* C3: ConvolveFT with spatial input, filter and output and a non-empty
   boundary condition gives, at every sample, the value GeneralConvolution
   gives with that boundary condition, for every kernel no larger than the
   image. *)
C3_ConvolveFTSameAsGeneral ==
  (/\ ftPc = "done"
   /\ ftArgs.fn = "ConvolveFT"
   /\ AllSpatial
   /\ ftArgs.boundaryCondition # <<>>) =>
    ftOut.data = DirectResult.data

(* The padded image has the samples the kernel reaches on both sides: the
   kernel reaches size / 2 samples to the right and size - 1 - size / 2 to
   the left of the image. *)
BorderFits ==
  LET n == ftArgs.in.sizes[1]
      k == ftArgs.filter_c.sizes[1]
      padded == OptimalFourierTransformSize(n + k - 1)
      left == CenterOffset(padded, n)
  IN left >= k - 1 - k \div 2 /\ padded - n - left >= k \div 2

(* C3 where the border fits. *)
ConvolveFTSameAsGeneralWhenBorderFits ==
  (/\ ftPc = "done"
   /\ ftArgs.fn = "ConvolveFT"
   /\ AllSpatial
   /\ ftArgs.boundaryCondition # <<>>
   /\ BorderFits) =>
    ftOut.data = DirectResult.data


(***************************************************************************)
(* Storage of ConvolveFT.                                                  *)
(***************************************************************************)
ConvolveFTCallValid ==
  /\ ftArgs # <<>>
  /\ ftArgs.fn = "ConvolveFT"
  /\ ConvolveFTError(ftArgs.in, ftArgs.filter_c, ftArgs.inRepresentation,
                     ftArgs.filterRepresentation, ftArgs.outRepresentation) = ""

(* The result is real-valued when everything is spatial and both images are real. *)
ResultIsReal ==
  /\ ftArgs.inRepresentation = "spatial" /\ ftArgs.in.dataType = "SFLOAT"
  /\ ftArgs.filterRepresentation = "spatial" /\ ftArgs.filter_c.dataType = "SFLOAT"
  /\ ftArgs.outRepresentation = "spatial"

(* The output image given is protected and has the result's sizes and sample type. *)
OutputProtectedAndMatching ==
  /\ ftMem.out.forged
  /\ ftMem.out.protected
  /\ ftMem.out.sizes = ftArgs.in.sizes
  /\ ftMem.out.dataType = IF ResultIsReal THEN "SFLOAT" ELSE "SCOMPLEX"

InputsNotWritten == ftMem.written \cap {"in", "filter"} = {}

WrittenInPlace ==
  /\ ftPc = "done"
  /\ ftMem.outData = "out"
  /\ "out" \in ftMem.written

PaddedComplexInput ==
  /\ ftArgs.inRepresentation = "spatial"
  /\ ftArgs.filterRepresentation = "spatial"
  /\ ftArgs.outRepresentation = "spatial"
  /\ ftArgs.boundaryCondition # <<>>
  /\ ~ResultIsReal

(* C12: for each combination of spatial / frequency representation of input,
   filter and output, and with a boundary condition that forces padding,
   ConvolveFT writes no sample of the caller's input and filter images, and a
   protected output image of matching sizes and sample type gets the result in
   the data segment it has, which is not reallocated. *)
C12_ConvolveFTKeepsStorage ==
  ConvolveFTCallValid =>
    /\ InputsNotWritten
    /\ (OutputProtectedAndMatching /\ ftPc \in {"done", "error"}) => WrittenInPlace

(* The same, but for a padded call on a complex-valued image. *)
ConvolveFTKeepsStorageUnlessPaddedComplex ==
  ConvolveFTCallValid =>
    /\ InputsNotWritten
    /\ (OutputProtectedAndMatching /\ ~PaddedComplexInput /\ ftPc \in {"done", "error"})
         => WrittenInPlace

(* The eight combinations and the padded call do end with the result in place. *)
ConvolveFTStorageReached ==
  /\ ConvolveFTCallValid
  /\ OutputProtectedAndMatching
  /\ WrittenInPlace
  /\ ftArgs.inRepresentation = "frequency"
  /\ ftArgs.filterRepresentation = "frequency"
  /\ ftArgs.outRepresentation = "spatial"


(***************************************************************************)
(* The kernel of GeneralConvolution                                        *)
(***************************************************************************)
GeneralConvolutionReturned ==
  /\ ftPc = "done"
  /\ ft.call.fn = "GeneralConvolution"

HasZeroWeight(kernel) == \E k \in 1..Len(kernel) : kernel[k] = CZero

(* What the weighted sum over every entry of the mirrored kernel gives. *)
FullWeightedSum(call) ==
  LET table == PixelTable(call.filter.data, TRUE, FALSE)
      bc == BoundaryConditionOf(call.boundaryCondition, 1)
  IN [ii \in 1..Len(call.in.data) |-> GeneralConvolutionSample(call.in.data, table, ii - 1, bc)]

(* C13: with a kernel that is not binary, GeneralConvolution always runs its
   line filter over a pixel table that has no entry of weight zero, and every
   output sample is the weighted sum over all the entries of the kernel, those
   of weight zero included. *)
C13_ZeroWeightsSkipped ==
  (GeneralConvolutionReturned /\ ~IsBinary(ft.call.filter.dataType)) =>
    /\ ft.lineFilter = "GeneralConvolutionLineFilter"
    /\ \A e \in 1..Len(ft.pixelTable) : ft.pixelTable[e].weight # CZero
    /\ ftOut.data = FullWeightedSum(ft.call)

C13_Witness ==
  /\ GeneralConvolutionReturned
  /\ ~IsBinary(ft.call.filter.dataType)
  /\ HasZeroWeight(ft.call.filter.data)
  /\ Len(ft.pixelTable) = 1
  /\ Len(ft.call.filter.data) = MaxLen
  /\ \E ii \in 1..Len(ftOut.data) : ftOut.data[ii] # CZero

(* The sum of the input samples under the set pixels of the mirrored kernel. *)
FootprintSum(call) ==
  LET m == Len(call.filter.data)
      origin == m \div 2
      bc == BoundaryConditionOf(call.boundaryCondition, 1)
      set == {k \in 1..m : call.filter.data[k] # CZero}
      term(ii) == [k \in 1..m |->
                    IF k \in set THEN BoundaryValue(call.in.data, ii + origin - (k - 1), bc)
                    ELSE CZero]
  IN [ii \in 1..Len(call.in.data) |-> CSum(term(ii - 1))]

(* C14: with a binary kernel, GeneralConvolution does not run its weighted line
   filter: it leaves the work to the uniform filter over the mirrored kernel,
   and every output sample is the unweighted sum of the input samples under the
   set pixels of the mirrored kernel, which is the weighted sum with weight 1
   on every set pixel. *)
C14_BinaryKernelIsUniform ==
  (GeneralConvolutionReturned /\ IsBinary(ft.call.filter.dataType)) =>
    /\ ft.lineFilter = "Uniform"
    /\ ft.pixelTable = <<>>
    /\ ftOut.data = FootprintSum(ft.call)
    /\ ftOut.data = FullWeightedSum(ft.call)

C14_Witness ==
  /\ GeneralConvolutionReturned
  /\ IsBinary(ft.call.filter.dataType)
  /\ ft.lineFilter = "Uniform"
  /\ ft.call.filter.data = <<COne, CZero>>
  /\ ftOut.data # ft.call.in.data
  /\ \E ii \in 1..Len(ftOut.data) : ftOut.data[ii] # CZero

(***************************************************************************)
(* Kernels that do not fit the image                                       *)
(***************************************************************************)
KernelLargerAlongAnAxis ==
  /\ KernelFitsDimensionality
  /\ \E k \in 1..Dimensionality(convArgs.filter_c) :
       convArgs.filter_c.sizes[k] > convArgs.in.sizes[k]

KernelOfFewerDimensionsAccepted ==
  (InputsForged /\ Dimensionality(convArgs.filter_c) < Dimensionality(convArgs.in)) =>
    /\ convErr # "DIMENSIONALITIES_DONT_MATCH"
    /\ ConvolutionFilter(convArgs).sizes =
         convArgs.filter_c.sizes \o
           [k \in 1..(Dimensionality(convArgs.in) - Dimensionality(convArgs.filter_c)) |-> 1]

(* C15: whatever the method, a Convolution call whose kernel has more
   dimensions than the input, or is larger than the input along some axis,
   ends by throwing; a kernel of fewer dimensions than the input is taken as
   one of size 1 along the dimensions it lacks and is not rejected for it. *)
C15_KernelMustFit ==
  (ConvolutionEnded /\ InputsForged) =>
    /\ (~KernelFitsDimensionality \/ KernelLargerAlongAnAxis) => convPc = "error"
    /\ KernelOfFewerDimensionsAccepted

(* The same, but for the calls that reach SeparableConvolution. *)
KernelMustFitUnlessSeparable ==
  (ConvolutionEnded /\ InputsForged) =>
    /\ (~KernelFitsDimensionality \/ KernelLargerAlongAnAxis) =>
         \/ convPc = "error"
         \/ StrategiesInvoked = <<"SeparableConvolution">>
    /\ KernelOfFewerDimensionsAccepted

LargerKernelAccepted ==
  /\ convPc = "done"
  /\ KernelLargerAlongAnAxis
  /\ convArgs.method = "separable"
  /\ convArgs.in.sizes = <<2>>
  /\ convArgs.filter_c.sizes = <<3>>
  /\ StrategiesInvoked = <<"SeparableConvolution">>

(***************************************************************************)
(* Singleton-expanded images in the scan framework                         *)
(***************************************************************************)
(* C16: adding a scalar to an image that is singleton-expanded along a
   dimension (stride 0 there) gives an output of the full expanded sizes, whose
   stride along that dimension is 0 too, and whose sample at every coordinate
   is the sum of the input sample at that coordinate and the scalar. *)
C16_SingletonExpansionKept ==
  (scanPc = "done" /\ IsSingletonExpanded(scanLhs)) =>
    /\ scanOut.sizes = scanLhs.sizes
    /\ \A dim \in 1..Len(scanLhs.sizes) :
         IsSingletonExpandedAlong(scanLhs, dim) => IsSingletonExpandedAlong(scanOut, dim)
    /\ \A c \in Coordinates(scanLhs.sizes) : At(scanOut, c) = At(scanLhs, c) + scanRhs

C16_Witness ==
  /\ scanPc = "done"
  /\ scanLhs.sizes = <<MaxSide + 1, MaxSide + 1>>
  /\ scanLhs.strides = <<1, 0>>
  /\ scanOut.strides = <<1, 0>>
  /\ scanRhs = 1
  /\ At(scanLhs, <<1, 2>>) = 2
  /\ At(scanOut, <<1, 2>>) = 3

(***************************************************************************)
(* Multiplication of tensor images                                         *)
(***************************************************************************)
NonScalarOperands == ~IsScalar(mulLhs) /\ ~IsScalar(mulRhs)
InnerDimensionsMatch == mulLhs.tensor.cols = mulRhs.tensor.rows

(* Element (i, j) of the matrix product of the two operands. *)
MatrixProduct(i, j) ==
  SumOf([k \in 1..mulLhs.tensor.cols |-> Element(mulLhs, i, k - 1) * Element(mulRhs, k - 1, j)])

IsMatrixProduct ==
  /\ mulOut.tensor.rows = mulLhs.tensor.rows
  /\ mulOut.tensor.cols = mulRhs.tensor.cols
  /\ Len(mulOut.data) = Elements(mulOut.tensor)
  /\ \A i \in 0..(mulLhs.tensor.rows - 1), j \in 0..(mulRhs.tensor.cols - 1) :
       Element(mulOut, i, j) = MatrixProduct(i, j)

(* C17: Multiply of two non-scalar tensor images throws when the columns of
   the left operand are not as many as the rows of the right one; otherwise,
   whatever the shapes of the two tensors, the output tensor has the rows of
   the left operand and the columns of the right one and holds their matrix
   product. *)
C17_MatrixProduct ==
  (mulPc \in {"done", "error"} /\ NonScalarOperands) =>
    IF InnerDimensionsMatch THEN mulPc = "done" /\ IsMatrixProduct
    ELSE mulPc = "error"

SymmetricTimesDiagonal ==
  \/ IsSymmetric(mulLhs.tensor) /\ IsDiagonal(mulRhs.tensor)
  \/ IsDiagonal(mulLhs.tensor) /\ IsSymmetric(mulRhs.tensor)

(* The same, but for a symmetric matrix times a diagonal one. *)
MatrixProductUnlessSymmetricTimesDiagonal ==
  (mulPc \in {"done", "error"} /\ NonScalarOperands /\ ~SymmetricTimesDiagonal) =>
    IF InnerDimensionsMatch THEN mulPc = "done" /\ IsMatrixProduct
    ELSE mulPc = "error"

SymmetricTimesDiagonalReturned ==
  /\ mulPc = "done"
  /\ IsSymmetric(mulLhs.tensor)
  /\ IsDiagonal(mulRhs.tensor)
  /\ mulLhs.data = <<1, 2, 3>>
  /\ mulRhs.data = <<1, 2>>
  /\ mulOut.data = <<1, 4, 3>>
  /\ IsSymmetric(mulOut.tensor)

(***************************************************************************)
(* What the line filters write                                             *)
(***************************************************************************)
Filtering(t) == lfPc = "scan" /\ lfThreads[t].line # -1

(* The first n samples of line l along the dimension being processed. *)
LineSamples(l, n) == [k \in 1..n |-> SampleIndex(lf.sizes, Head(lf.dims), l, k - 1)]

(* Every call of Filter has written, so far, the first ii samples of its own
   line, in order of increasing index, each once, and nothing else; it
   returns when it has written them all. *)
FilterWritesItsLine ==
  \A t \in Threads :
    Filtering(t) =>
      /\ lfThreads[t].ii <= lf.sizes[Head(lf.dims)]
      /\ lfThreads[t].written = LineSamples(lfThreads[t].line, lfThreads[t].ii)

(* C18: whatever the lines given to each thread and however the threads
   interleave, every call of a convolution line filter writes the samples of
   its own line, at out + ii * outStride for increasing ii, each once, and
   nothing else; and when the strategy has returned every output sample has
   been written exactly once. *)
C18_EverySampleWrittenOnce ==
  /\ FilterWritesItsLine
  /\ lfPc = "done" => \A p \in 1..Product(lf.sizes) : lfWrites[p] = 1

(* C18 as the code has it: every output sample is written once for each dimension that is
   processed. *)
C18_EverySampleWrittenOncePerPass ==
  /\ FilterWritesItsLine
  /\ lfPc = "done" => \A p \in 1..Product(lf.sizes) : lfWrites[p] = lf.passes
  /\ lfPc = "scan" =>
       \A p \in 1..Product(lf.sizes) :
         lfWrites[p] \in {lf.passes - Len(lf.dims), lf.passes - Len(lf.dims) + 1}

C18_Witness ==
  /\ lfPc = "scan"
  /\ lf.kind = "separable"
  /\ lf.sizes = <<MaxSide, MaxSide>>
  /\ lf.dims = <<2>>
  /\ lf.passes = 2
  /\ Filtering(1) /\ lfThreads[1].line = 0 /\ lfThreads[1].ii = MaxSide
  /\ Filtering(2) /\ lfThreads[2].line = 1 /\ lfThreads[2].ii = 1
  /\ lfThreads[1].written = LineSamples(0, MaxSide)
  /\ lfWrites[1] = 2

NoFilterCallYet ==
  /\ \A t \in Threads : lfThreads[t] = NoThread
  /\ \A p \in 1..Product(lf.sizes) : lfWrites[p] = 0

(* C19: the offset list of the general-convolution line filter is assigned
   only by SetNumberOfThreads, once in a strategy invocation and before any
   call of Filter; the calls of Filter, whichever threads run them and however
   they interleave, leave the offsets and the pixel table as they were. *)
C19_OffsetsSetOnceBeforeFiltering ==
  /\ lfPc = "setup" => NoFilterCallYet /\ lfSets = 0 /\ lfOffsets = <<>>
  /\ (lfPc \in {"scan", "done"} /\ lf.kind = "general") =>
       lfSets = 1 /\ lfOffsets = lf.offsets
  /\ (lfPc \in {"scan", "done"} /\ lf.kind = "separable") =>
       lfSets = 0 /\ lfOffsets = <<>>

C19_Witness ==
  /\ lf.kind = "general"
  /\ lfOffsets = <<-1, 0, 1>>
  /\ lfSets = 1
  /\ Filtering(1) /\ lfThreads[1].ii = 1
  /\ Filtering(2) /\ lfThreads[2].ii = 1
  /\ lfThreads[1].line # lfThreads[2].line

(***************************************************************************)
(* The deconvolution functions that are not implemented                    *)
(***************************************************************************)
RlEnded == rlPc \in {"done", "error"}

RlOptionsValid == rlArgs.options \subseteq {"OTF"}

RlInputsValid ==
  /\ rlArgs.in.forged /\ rlArgs.psf.forged
  /\ rlArgs.in.scalar /\ rlArgs.psf.scalar
  /\ rlArgs.in.real /\ rlArgs.psf.real
  /\ RlOptionsValid

(* The errors that belong to what is wrong with the arguments. *)
RlOwnErrors ==
  (IF ~rlArgs.in.forged \/ ~rlArgs.psf.forged THEN {"IMAGE_NOT_FORGED"} ELSE {})
    \cup (IF ~rlArgs.in.scalar \/ ~rlArgs.psf.scalar THEN {"IMAGE_NOT_SCALAR"} ELSE {})
    \cup (IF ~rlArgs.in.real \/ ~rlArgs.psf.real THEN {"DATA_TYPE_NOT_SUPPORTED"} ELSE {})
    \cup (IF ~RlOptionsValid THEN {"INVALID_FLAG"} ELSE {})

(* C20: RichardsonLucy and RichardsonLucyTotalVariation never return and
   never write the output image: called with forged, scalar, real-valued in
   and psf and valid options they throw NOT_IMPLEMENTED; an image that is not
   forged, not scalar or not real-valued, and an unknown option, are rejected
   with an error of their own. *)
C20_AlwaysNotImplemented ==
  RlEnded =>
    /\ rlPc = "error"
    /\ ~rlWritten
    /\ IF RlInputsValid THEN rlErr = "NOT_IMPLEMENTED" ELSE rlErr \in RlOwnErrors

(* C20 as the code has it: the psf is looked at after the options, by GetOTF, which has
   errors of its own and takes a complex-valued OTF. *)
C20_NotImplementedWhenPsfAccepted ==
  RlEnded =>
    /\ rlPc = "error"
    /\ ~rlWritten
    /\ rlErr =
         IF ~rlArgs.in.forged \/ ~rlArgs.psf.forged THEN "IMAGE_NOT_FORGED"
         ELSE IF ~rlArgs.in.scalar \/ ~rlArgs.psf.scalar THEN "IMAGE_NOT_SCALAR"
         ELSE IF ~rlArgs.in.real THEN "DATA_TYPE_NOT_SUPPORTED"
         ELSE IF ~RlOptionsValid THEN "INVALID_FLAG"
         ELSE IF "OTF" \in rlArgs.options
           THEN (IF rlArgs.psf.sizes # rlArgs.in.sizes THEN "SIZES_DONT_MATCH"
                 ELSE "NOT_IMPLEMENTED")
         ELSE IF ~rlArgs.psf.real THEN "DATA_TYPE_NOT_SUPPORTED"
         ELSE IF rlArgs.psf.sizes[1] > rlArgs.in.sizes[1] THEN "INDEX_OUT_OF_RANGE"
         ELSE "NOT_IMPLEMENTED"

C20_Witness ==
  /\ rlPc = "error"
  /\ rlErr = "NOT_IMPLEMENTED"
  /\ rlArgs.fn = "RichardsonLucyTotalVariation"
  /\ rlArgs.in.forged /\ rlArgs.in.scalar /\ rlArgs.in.real
  /\ rlArgs.psf.forged /\ rlArgs.psf.scalar /\ rlArgs.psf.real
  /\ rlArgs.psf.sizes = <<MaxLen - 1>>
  /\ rlArgs.options = {}
  /\ ~rlWritten

(***************************************************************************)
(* Properties of the internal filter and of the line filter's reads.       *)
(***************************************************************************)
(* The caller's taps g[0..L-1] as samples, and the origin o the constructor uses. *)
CallerTaps(f) ==
  IF f.isComplex THEN ToComplexSamples(f.filter, StoredTaps(f))
  ELSE ToRealSamples(f.filter, StoredTaps(f))
CallerOrigin(f) == IF f.origin < 0 THEN StoredTaps(f) \div 2 ELSE f.origin

(* sum over k of g[k] * in[i + o - k] on the boundary-extended line. *)
TrueConvolution(line, g, o, bc, i) ==
  CSum([k \in 1..Len(g) |-> CMul(g[k], BoundaryValue(line, i + o - (k - 1), bc))])
(* sum over k of g[k] * in[i - o + k]: the correlation. *)
Correlation(line, g, o, bc, i) ==
  CSum([k \in 1..Len(g) |-> CMul(g[k], BoundaryValue(line, i - o + (k - 1), bc))])

GeneralCallDone ==
  /\ sepPc = "done"
  /\ Dimensionality(sepArgs.in) = 1
  /\ Len(sepArgs.filterArray) = 1
  /\ sepArgs.filterArray[1].symmetry \in {"", "general"}
  /\ StoredTaps(sepArgs.filterArray[1]) >= 1

(* C21: for a "general" filter with taps g[0..L-1] and origin o (floor(L/2)
   when the given origin is negative) the internal filter holds the taps
   reversed and the origin L - o - 1, and the output of SeparableConvolution
   is the convolution: out[i] = sum over k of g[k] * in[i + o - k] on the
   boundary-extended line. *)
C21_GeneralFilterConvolves ==
  GeneralCallDone =>
    LET f == sepArgs.filterArray[1]
        g == CallerTaps(f)
        L == Len(g)
        o == CallerOrigin(f)
        bc == BoundaryConditionOf(sepArgs.boundaryCondition, 1)
    IN /\ filterData[1].filter = Reverse(g)
       /\ filterData[1].origin = L - o - 1
       /\ \A i \in 0..(sepArgs.in.sizes[1] - 1) :
            out.data[i + 1] = TrueConvolution(sepArgs.in.data, g, o, bc, i)

(* Taps (1, 2) with the default origin on an impulse: the convolution and the
   correlation differ. *)
C21_Witness ==
  /\ GeneralCallDone
  /\ sepArgs.filterArray[1].filter = <<1, 2>>
  /\ sepArgs.filterArray[1].origin = 0 - 1
  /\ sepArgs.boundaryCondition = <<"add zeros">>
  /\ sepArgs.in.data = RealSamples(<<1, 0, 0>>)
  /\ out.data = RealSamples(<<2, 0, 0>>)
  /\ \E i \in 0..2 : out.data[i + 1] # Correlation(sepArgs.in.data, <<Cx(1, 0), Cx(2, 0)>>, 1, "add zeros", i)

(* What the claim calls an invalid filter: an unknown symmetry tag, a
   non-negative origin that is not below the logical length, or a complex
   filter with an odd number of values. *)
RecognizedTags == {"", "general", "even", "odd", "conj", "d-even", "d-odd", "d-conj"}
LogicalLength(f) ==
  LET n == StoredTaps(f)
  IN IF n = 0 THEN 0
     ELSE IF f.symmetry \in {"even", "odd", "conj"} THEN 2 * n - 1
     ELSE IF f.symmetry \in {"d-even", "d-odd", "d-conj"} THEN 2 * n
     ELSE n
IsInvalidFilter(f) ==
  \/ f.symmetry \notin RecognizedTags
  \/ f.origin >= 0 /\ f.origin >= LogicalLength(f)
  \/ f.isComplex /\ Len(f.filter) % 2 = 1
FilterErrors ==
  {"Symmetry string not recognized", "Origin outside of filter",
   "Complex filter must have an even number of values."}

(* The call gets as far as building the internal filters. *)
FiltersBuilt ==
  /\ sepPc # "call"
  /\ sepArgs.in.forged
  /\ Dimensionality(sepArgs.in) >= 1
  /\ Len(sepArgs.filterArray) \in {1, Dimensionality(sepArgs.in)}

(* C22: building the internal representation of a filter given to
   SeparableConvolution fails with an error when the symmetry string is not a
   recognized tag, when a non-negative origin is not smaller than the filter's
   logical length, or when a complex filter holds an odd number of values. *)
C22_InvalidFilterFails ==
  (FiltersBuilt /\ \E k \in 1..Len(sepArgs.filterArray) : IsInvalidFilter(sepArgs.filterArray[k])) =>
    /\ sepPc = "error"
    /\ sepErr \in FilterErrors

(* The same for filters that hold at least one tap: those the constructor looks at. *)
InvalidNonEmptyFilterFails ==
  (FiltersBuilt /\ \E k \in 1..Len(sepArgs.filterArray) :
                      /\ IsInvalidFilter(sepArgs.filterArray[k])
                      /\ Len(sepArgs.filterArray[k].filter) >= 1) =>
    /\ sepPc = "error"
    /\ sepErr \in FilterErrors

(* A filter without values and with an unknown symmetry tag is accepted. *)
EmptyFilterWithUnknownTagAccepted ==
  /\ sepPc = "done"
  /\ Len(sepArgs.filterArray) = 1
  /\ sepArgs.filterArray[1].filter = <<>>
  /\ sepArgs.filterArray[1].symmetry \notin RecognizedTags
  /\ sepArgs.filterArray[1].origin = 0 - 1
  /\ sepErr = ""
  /\ out.data = sepArgs.in.data

(* The line indices of the input buffer the framework fills for dimension d:
   the line extended by border[d] on both sides. *)
BufferIndices(d) == (0 - border[d])..(sepArgs.in.sizes[d] - 1 + border[d])
ProcessedFilter(d) == filterData[ProcDim(filterData, d)]
ReadsWithinBorder(d) ==
  \A ii \in 0..(sepArgs.in.sizes[d] - 1) : ReadIndices(ProcessedFilter(d), ii) \subseteq BufferIndices(d)
IsDoubled(f) == f.symmetry \in {"D_EVEN", "D_ODD", "D_CONJ"}

(* C23: for every symmetry tag, every origin the constructor accepts and every
   output index ii < length, Filter reads input samples only at line indices
   in [-border, length - 1 + border], border being max(origin', size - origin' - 1)
   for the internal origin origin'. *)
C23_ReadsWithinBorder ==
  sepPc \in {"separable", "done"} =>
    \A d \in 1..Dimensionality(sepArgs.in) :
      process[d] => /\ border[d] = BorderOf(ProcessedFilter(d))
                    /\ ReadsWithinBorder(d)

(* What holds: the reads stay inside unless the filter is "d-even", "d-odd" or
   "d-conj" with an internal origin at or right of the middle (a caller's
   origin below the number of stored taps); no Filter call of another filter
   reads outside its buffer. *)
ReadsWithinBorderUnlessDoubledLeftOrigin ==
  sepPc \in {"separable", "done"} =>
    /\ \A d \in 1..Dimensionality(sepArgs.in) :
         (process[d] /\ ~(IsDoubled(ProcessedFilter(d))
                            /\ ProcessedFilter(d).origin >= ProcessedFilter(d).dataSize)) =>
           ReadsWithinBorder(d)
    /\ pass.outside =>
         \E d \in 1..Dimensionality(sepArgs.in) :
           process[d] /\ IsDoubled(ProcessedFilter(d))
             /\ ProcessedFilter(d).origin >= ProcessedFilter(d).dataSize

(* A "d-even" filter of one stored tap with origin 0: internal origin 1,
   border 1, and the first output sample reads line index -2. *)
DoubledFilterReadsBeforeBuffer ==
  /\ sepPc = "done"
  /\ Dimensionality(sepArgs.in) = 1
  /\ sepArgs.filterArray[1] = OneDimensionalFilter(<<1>>, 0, "d-even", FALSE)
  /\ filterData[1].origin = 1
  /\ border = <<1>>
  /\ (0 - 2) \in ReadIndices(filterData[1], 0)
  /\ pass.outside

(* The call in progress with its one filter given once per dimension, and with
   its identical filters given once. *)
FilterPerDimension(a) ==
  [a EXCEPT !.filterArray = [ii \in 1..Dimensionality(a.in) |-> a.filterArray[1]]]
FilterOnce(a) == [a EXCEPT !.filterArray = <<a.filterArray[1]>>]
ProcessOf(a) == SepProcess(a.process, SepFilterData(a.in, a.filterArray), a.in)

(* A finished call on a two-dimensional image whose filter array is one filter,
   or the same filter for every dimension. *)
OneFilterCallDone ==
  /\ sepPc = "done"
  /\ Dimensionality(sepArgs.in) = 2
  /\ \A k \in 1..Len(sepArgs.filterArray) : sepArgs.filterArray[k] = sepArgs.filterArray[1]
OtherWay(a) == IF Len(a.filterArray) = 1 THEN FilterPerDimension(a) ELSE FilterOnce(a)
SameOnceOrPerDimension ==
  /\ process = ProcessOf(OtherWay(sepArgs))
  /\ out.data = SeparableConvolutionResult(OtherWay(sepArgs), CZero).data

(* C24: for any image, also one with dimensions of size 1, and any filter, the
   axes SeparableConvolution marks for processing, and its result, are the
   same whether the filter is given once or once per dimension as an array of
   identical filters. *)
C24_OnceSameAsPerDimension ==
  OneFilterCallDone => SameOnceOrPerDimension

(* The same for images without a dimension of size 1. *)
OnceSameAsPerDimensionWithoutSingleton ==
  (OneFilterCallDone /\ \A ii \in 1..2 : sepArgs.in.sizes[ii] > 1) => SameOnceOrPerDimension

(* A filter given once is applied along a dimension of size 1; given per
   dimension it is not. *)
SingletonAxisProcessedWhenGivenOnce ==
  /\ OneFilterCallDone
  /\ Len(sepArgs.filterArray) = 1
  /\ sepArgs.in.sizes = <<2, 1>>
  /\ sepArgs.process = <<>>
  /\ process = <<TRUE, TRUE>>
  /\ ProcessOf(FilterPerDimension(sepArgs)) = <<TRUE, FALSE>>
  /\ out.data # SeparableConvolutionResult(FilterPerDimension(sepArgs), CZero).data

(***************************************************************************)
(* Properties of the sizes inside ConvolveFT.                              *)
(***************************************************************************)
ExpandedFilterSizes == ConvolveFTFilterCopy(fsArgs.in, fsArgs.filter)
SmallerAlongSome(a, b) == \E k \in 1..Len(a) : a[k] < b[k]
MultiplyReached == fs.operands # <<>>

(* C25: whenever the dimension-expanded filter is smaller than the (possibly
   padded) input along at least one dimension, also when it has the same size
   along others, ConvolveFT zero-pads the filter to the input's sizes before
   transforming it, so that MultiplySampleWise always gets two operands of
   identical sizes. *)
C25_FilterPaddedToInputSizes ==
  MultiplyReached =>
    /\ SmallerAlongSome(ExpandedFilterSizes, fs.inFT) => (fs.padded /\ fs.filterFT = fs.inFT)
    /\ fs.operands[1] = fs.operands[2]

(* What holds: the filter is padded when it is smaller along every dimension,
   and the operands have identical sizes then, and when the filter has the
   input's sizes to begin with. *)
FilterPaddedWhenSmallerAlongAll ==
  MultiplyReached =>
    /\ fs.padded = SizesLess(ExpandedFilterSizes, fs.inFT)
    /\ (fs.padded \/ ExpandedFilterSizes = fs.inFT) => fs.operands[1] = fs.operands[2]

(* A 2x3 filter on a 4x3 input, no boundary condition: the filter is not
   padded and MultiplySampleWise is given operands of sizes 4x3 and 2x3. *)
FilterOfEqualSizeAlongOneAxisNotPadded ==
  /\ fsPc = "error"
  /\ fsErr = "SIZES_DONT_MATCH"
  /\ fsArgs.in.sizes = <<4, 3>>
  /\ fsArgs.filter.sizes = <<2, 3>>
  /\ fsArgs.boundaryCondition = <<>>
  /\ ~fs.padded
  /\ fs.operands = <<<<4, 3>>, <<2, 3>>>>

(* The sizes the filter has along the input's dimensions: 1 where the
   caller's filter has no such dimension. *)
FilterSizeAlong(ii) ==
  IF ii <= Dimensionality(fsArgs.filter) THEN fsArgs.filter.sizes[ii] ELSE 1
InputPrepared == fsPc \in {"filter", "multiply", "done"} \/ (fsPc = "error" /\ MultiplyReached)

(* C26: with padding, the padded size of every input dimension ii is
   OptimalFourierTransformSize(inSize[ii] + f[ii] - 1), f[ii] being the
   filter's size along ii, 1 for a dimension the caller's filter does not
   have; the filter's size is never asked for a dimension index at or beyond
   the filter's dimensionality. *)
C26_PaddedSizes ==
  (InputPrepared /\ fs.inPadding) =>
    /\ \A ii \in 1..Dimensionality(fsArgs.in) :
         fs.inFT[ii] = OptimalFourierTransformSize(fsArgs.in.sizes[ii] + FilterSizeAlong(ii) - 1)
    /\ \A dim \in fs.queried : dim < Dimensionality(fsArgs.filter)

(* What holds: the same for a filter that has the input's dimensionality. *)
PaddedSizesOfFullDimensionalFilter ==
  (InputPrepared /\ fs.inPadding /\ Dimensionality(fsArgs.filter) = Dimensionality(fsArgs.in)) =>
    /\ \A ii \in 1..Dimensionality(fsArgs.in) :
         fs.inFT[ii] = OptimalFourierTransformSize(fsArgs.in.sizes[ii] + FilterSizeAlong(ii) - 1)
    /\ \A dim \in fs.queried : dim < Dimensionality(fsArgs.filter)

(* A 1-D filter on a 2-D input with a boundary condition: filter.Size( 1 ) is
   called, and the padded size along dimension 1 is made of what it returns. *)
FilterSizeReadBeyondDimensionality ==
  /\ InputPrepared
  /\ fs.inPadding
  /\ fsArgs.in.sizes = <<2, 2>>
  /\ fsArgs.filter.sizes = <<2>>
  /\ 1 \in fs.queried
  /\ fs.inFT = <<3, OptimalFourierTransformSize(2 + 3 - 1)>>

(***************************************************************************)
(* Properties of the data type Multiply gives its output.                  *)
(***************************************************************************)
(* C27: in every branch of Multiply (a scalar operand, a matrix times its own
   transpose, diagonal times diagonal or vector, full or symmetric times
   diagonal, the general matrix product) the output image has the requested
   data type dt_out. *)
C27_OutputHasRequestedDataType ==
  mulPc = "done" => mulOutDataType = mulDataTypes.dt_out

(* What holds: the output has dt_out in every branch but diagonal times
   diagonal or vector, where it has the suggested arithmetic type. *)
OutputHasRequestedDataTypeUnlessSampleWise ==
  mulPc = "done" =>
    mulOutDataType =
      IF MultiplyBranch(mulLhs, mulRhs) = "sample-wise"
        THEN SuggestArithmetic(mulDataTypes.lhs, mulDataTypes.rhs)
      ELSE mulDataTypes.dt_out

(* Two diagonal matrices of 8-bit samples, dt_out 8-bit: the output is
   single-precision float. *)
DiagonalProductHasArithmeticType ==
  /\ mulPc = "done"
  /\ IsDiagonal(mulLhs.tensor)
  /\ IsDiagonal(mulRhs.tensor)
  /\ mulDataTypes = DataTypes("UINT8", "UINT8", "UINT8")
  /\ mulOutDataType = "SFLOAT"

(***************************************************************************)
(* Properties of IterativeConstrainedTikhonovMiller's loop.                *)
(***************************************************************************)
(* C28: for every maxIterations, 0 included, the loop of
   IterativeConstrainedTikhonovMiller runs at most max(maxIterations, 1)
   times, and the counter never wraps around. *)
C28_LoopBounded ==
  /\ iterations <= Max(ictmArgs.maxIterations, 1)
  /\ maxIterations <= ictmArgs.maxIterations

(* What holds: the same for maxIterations of 1 and more, the counter being
   what is left of it. *)
LoopBoundedForPositiveMaxIterations ==
  ictmArgs.maxIterations >= 1 =>
    /\ iterations <= ictmArgs.maxIterations
    /\ maxIterations = ictmArgs.maxIterations - iterations
    /\ (ictmPc = "loop" => maxIterations > 0)

(* maxIterations = 0: the counter is 0 - 1 as a dip::uint after the first
   pass, and a second pass runs. *)
CounterWrapsFromZero ==
  /\ ictmArgs.maxIterations = 0
  /\ iterations = 2
  /\ maxIterations = UintMax - 1
  /\ ictmPc = "loop"


(***************************************************************************)
(* Properties of the viewer module.                                        *)
(***************************************************************************)
ViewerCalls == {"Show", "Draw", "drawHook", "Spin", "CloseAll", "exit", "dims.get", "dims.set"}
ClearingCalls == {"Spin", "CloseAll", "exit"}

(* C29: the viewer module changes the interpreter's input hook only by
   setting it to its draw hook in Show when no hook is installed, and by
   clearing it in Spin, CloseAll or at exit when the installed hook is its
   own; another party's hook is left as it is by every call of the module;
   and after Spin, CloseAll or exit the installed hook is not the module's
   draw hook. *)
C29_InputHookDiscipline ==
  /\ (lastCall \in ViewerCalls /\ PyOS_InputHook # hookBefore) =>
       \/ lastCall = "Show" /\ hookBefore = "nullptr" /\ PyOS_InputHook = "drawHook"
       \/ lastCall \in ClearingCalls /\ hookBefore = "drawHook" /\ PyOS_InputHook = "nullptr"
  /\ (lastCall \in ViewerCalls /\ hookBefore = "otherHook") => PyOS_InputHook = "otherHook"
  /\ lastCall \in ClearingCalls => PyOS_InputHook # "drawHook"

(* The module's hook was installed when the interpreter exited, and has been cleared. *)
OwnHookClearedAtExit ==
  /\ pyPc = "exited"
  /\ lastCall = "exit"
  /\ hookBefore = "drawHook"
  /\ PyOS_InputHook = "nullptr"

(* Another party's hook was installed when Spin was called, and is still. *)
OtherHookKeptBySpin ==
  /\ lastCall = "Spin"
  /\ hookBefore = "otherHook"
  /\ PyOS_InputHook = "otherHook"


(* The last call assigned to `dims` the value the getter had just returned. *)
DimsRoundTrip == lastCall = "dims.set" /\ svGot # NoDims

(* Four entries, each -1 or a dimension of the viewer's image. *)
ValidDims(dims, nDims) ==
  /\ Len(dims) = 4
  /\ \A i \in 1..4 : dims[i] = -1 \/ dims[i] \in 0..(nDims - 1)

HasRepeatedDimension(dims) ==
  \E i \in 1..Len(dims) : \E j \in 1..(i - 1) : dims[j] # -1 /\ dims[j] = dims[i]

(* C30: assigning to `dims` the value the getter just returned succeeds and
   leaves the stored dims as they were; and after every set that succeeds
   the stored dims have four entries, each -1 or a valid dimension index of
   the image. *)
C30_DimsRoundTrip ==
  /\ DimsRoundTrip => (svErr = "" /\ viewer.dims_ = svGot)
  /\ (lastCall = "dims.set" /\ svErr = "") => ValidDims(viewer.dims_, viewer.dimensionality)

(* What holds: the round trip succeeds unless the stored dims name a
   dimension twice, and it never changes the stored dims. *)
DimsRoundTripUnlessRepeated ==
  /\ DimsRoundTrip => viewer.dims_ = svGot
  /\ (DimsRoundTrip /\ ~HasRepeatedDimension(svGot)) => svErr = ""
  /\ (DimsRoundTrip /\ HasRepeatedDimension(svGot)) => svErr = "INDEX_OUT_OF_RANGE"
  /\ (lastCall = "dims.set" /\ svErr = "") => ValidDims(viewer.dims_, viewer.dimensionality)

(* The dims Show gave a three-dimensional image are rejected by the setter. *)
ShownDimsRejected ==
  /\ DimsRoundTrip
  /\ svGot = <<2, 1, 0, 0>>
  /\ viewer.dims_ = <<2, 1, 0, 0>>
  /\ svErr = "INDEX_OUT_OF_RANGE"

(* So are the dims a set of three entries stored. *)
ThreeEntriesStoredRejected ==
  /\ DimsRoundTrip
  /\ svGot = <<0, 1, 2, 2>>
  /\ svErr = "INDEX_OUT_OF_RANGE"

====
